---- MODULE Spec2Model ----
(***************************************************************************)
(* Model of the Tooka audio-node server (ToddyTheNoobDud/Tooka).           *)
(*                                                                         *)
(* Part 1: the WebSocket gateway of src/src/index.ts (class Tooka): the    *)
(* upgrade handshake, the session map and the open / message / close       *)
(* handlers.  src/unnamed/part_001 is an earlier revision of the same file *)
(* with the handlers inlined; its logic is identical.                      *)
(*                                                                         *)
(* Part 2: the source-manager registry (SourceManagerRegistry in           *)
(* src/unnamed/part_000) and the GET /v4/loadtracks route                  *)
(* (src/src/endpoints/loadtracks.route.ts) behind Router.fetch.            *)
(*                                                                         *)
(* Part 3: the track codec (encodeTrack and decodeTrack in                 *)
(* src/unnamed/part_000), byte for byte.                                   *)
(*                                                                         *)
(* Part 4: the credential cache (CredentialManager in                      *)
(* src/unnamed/part_000): its entries and their expiry, the save timer,    *)
(* the saveCache() runs with their awaits, and cleanup().                  *)
(*                                                                         *)
(* The parts share no state: each specification moves the variables of one *)
(* part and leaves the others as they are after construction.              *)
(*                                                                         *)
(* JavaScript values are modelled as follows.                              *)
(*  - strings are strings; a header that is absent (headers.get -> null)   *)
(*    is Null; the empty string is "" (both are falsy in the code).        *)
(*  - crypto.randomUUID() is a counter: the n-th call returns n, so every  *)
(*    call returns a value never returned before.  The Session-Id header   *)
(*    of a request is either absent/empty (NoHeader) or any value already  *)
(*    returned (a live session id, a removed session's id or a connection  *)
(*    id); a client cannot name a value that has not been generated yet.   *)
(*  - Date.now() is the variable now, in milliseconds since process start; *)
(*    the real clock is larger, so now + timeout is never 0.               *)
(*  - numbers stored in a Session are naturals; undefined is Undefined and *)
(*    the IEEE NaN (Number() of a non-numeric JSON value) is NaN, with     *)
(*    Js* operators giving JavaScript's results on them.                   *)
(***************************************************************************)
EXTENDS Integers, Sequences, FiniteSets, TLC

VARIABLES
    sessions,      \* this.sessions : Map<sessionId, Session>
    connections,   \* this.connections : Set<ServerWebSocket>, by data.id
    sockets,       \* the runtime's upgraded sockets: data, state, frames sent
    uuidCount,     \* number of crypto.randomUUID() calls made so far
    now,           \* Date.now()
    last,          \* the last handler invocation: its inputs and its result
    managers,      \* SourceManagerRegistry.managers : Map<name, SourceManager>,
                   \*   as the sequence of its values in iteration order
    registerLog,   \* every manager passed to register() so far, in call order
    reg,           \* the last registry or route call: its inputs and its result
    codec,         \* the last track codec call: its input and its result
    cache,         \* CredentialManager.cache : Map<key, {value, expiresAt}>
    isDirty,       \* CredentialManager.isDirty
    saveTimer,     \* CredentialManager.saveTimer: <<>> when null, else <<due>>,
                   \*   the due time of the timer it holds
    timers,        \* the runtime's pending setTimeout timers of the manager:
                   \*   their due times, in creation order
    saves,         \* the saveCache() runs in flight, in start order
    cacheFile,     \* the credentials of .cache/credentials.json, or NoFile
    loadPromise,   \* "pending" until loadCache() has finished, then "done"
    clock,         \* Date.now() of the credential manager's process
    cleanups,      \* number of cleanup() calls made so far
    cred           \* the last credential manager step: its inputs and result

gatewayVars == <<sessions, connections, sockets, uuidCount, now, last>>
registryVars == <<managers, registerLog, reg>>
codecVars == <<codec>>
credentialVars == <<cache, isDirty, saveTimer, timers, saves, cacheFile,
                    loadPromise, clock, cleanups, cred>>
vars == <<sessions, connections, sockets, uuidCount, now, last,
          managers, registerLog, reg, codec,
          cache, isDirty, saveTimer, timers, saves, cacheFile,
          loadPromise, clock, cleanups, cred>>

----------------------------------------------------------------------------
(* Bounds of the model *)

MaxUuid == 4            \* Spec: crypto.randomUUID() is called at most MaxUuid times
MaxTime == 1500         \* Spec: the clock is followed up to MaxTime milliseconds
MaxUuidHandshake == 3   \* SpecHandshake: bound on the randomUUID() calls
MaxUuidFrames == 3      \* SpecFrames: bound on the randomUUID() calls
MaxTimeShort == 500     \* SpecHandshake, SpecFrames: bound on the clock
TickSteps == {500}      \* the clock advances in steps of these sizes

----------------------------------------------------------------------------
(* JavaScript values *)

Null == "<null>"
Undefined == -1
NaN == -2
NoHeader == 0

Password == "youshallnotpass"
DefaultResumeTimeoutMs == 60000
DefaultTimeoutSeconds == 60

\* !x is false
JsTruthyNum(x) == x # Undefined /\ x # NaN /\ x # 0
JsTruthyStr(s) == s # Null /\ s # ""
\* a > b on numbers; every comparison with NaN is false
JsGt(a, b) == a # NaN /\ b # NaN /\ a > b
JsAdd(a, b) == IF a = NaN \/ b = NaN THEN NaN ELSE a + b

Methods == {"GET", "POST"}
AuthValues == {Null, Password, "wrong"}
UserIds == {Null, "", "u1", "u2"}
ClientNames == {Null, "c1"}

\* JSON.parse(text) of an inbound frame, reduced to what the handler reads:
\* json = FALSE is text that does not parse; op is payload?.op; tkind/tval
\* is payload?.timeout (absent or null, a number, or a non-numeric value).
TimeoutValues == {-5, 0, 1, 2}
ConfigureFrames ==
    {[json |-> TRUE, op |-> "configureResuming", tkind |-> "absent", tval |-> 0],
     [json |-> TRUE, op |-> "configureResuming", tkind |-> "nan", tval |-> 0]}
    \cup {[json |-> TRUE, op |-> "configureResuming", tkind |-> "number", tval |-> t] :
            t \in TimeoutValues}
OtherFrames ==
    {[json |-> FALSE, op |-> "none", tkind |-> "absent", tval |-> 0],
     [json |-> TRUE, op |-> "none", tkind |-> "absent", tval |-> 0],
     [json |-> TRUE, op |-> "play", tkind |-> "number", tval |-> 1]}
Frames == ConfigureFrames \cup OtherFrames
NoFrame == [json |-> FALSE, op |-> "none", tkind |-> "absent", tval |-> 0]

----------------------------------------------------------------------------
(* The record of the last handler invocation *)

NoEvent ==
    [op |-> "init", method |-> Null, auth |-> Null, userId |-> Null,
     clientName |-> Null, sessionIdHeader |-> NoHeader, status |-> 0,
     resumed |-> FALSE, sessionId |-> NoHeader, created |-> FALSE,
     conn |-> NoHeader, frame |-> NoFrame]

----------------------------------------------------------------------------
(* handleWebSocketUpgrade *)

\* variant: the User-Id check made before the password check
HandshakeStatus_UserIdFirst(method, auth, userId, clientName) ==
    IF method # "GET" THEN 405
    ELSE IF ~JsTruthyStr(userId) THEN 400
    ELSE IF ~JsTruthyStr(auth) \/ auth # Password THEN 401
    ELSE IF ~JsTruthyStr(clientName) THEN 400
    ELSE 0

\* the status of the first failing check, 0 when all pass
HandshakeStatus(method, auth, userId, clientName) ==
    IF method # "GET" THEN 405
    ELSE IF ~JsTruthyStr(auth) \/ auth # Password THEN 401
    ELSE IF ~JsTruthyStr(userId) THEN 400
    ELSE IF ~JsTruthyStr(clientName) THEN 400
    ELSE 0

\* variant: the owner of the session is not compared with the request's User-Id
ResumeEligible_AnyUser(existing, userId, t) ==
    /\ existing.resumeEnabled
    /\ (~JsTruthyNum(existing.resumeDeadline) \/ JsGt(existing.resumeDeadline, t))

\* existing.userId === userId && existing.resumeEnabled &&
\*   (!existing.resumeDeadline || existing.resumeDeadline > Date.now())
ResumeEligible(existing, userId, t) ==
    /\ existing.userId = userId
    /\ existing.resumeEnabled
    /\ (~JsTruthyNum(existing.resumeDeadline) \/ JsGt(existing.resumeDeadline, t))

\* the session the Session-Id header resumes, Undefined if none
ResumeLookup(sessionIdHeader, userId) ==
    IF /\ sessionIdHeader # NoHeader
       /\ sessionIdHeader \in DOMAIN sessions
       /\ ResumeEligible(sessions[sessionIdHeader], userId, now)
    THEN sessionIdHeader
    ELSE Undefined

\* variant: a new session starts with resuming enabled
NewSession_ResumeEnabled(newSessionId, userId, clientName) ==
    [sessionId |-> newSessionId, userId |-> userId, clientName |-> clientName,
     resumeEnabled |-> TRUE, resumeTimeoutMs |-> DefaultResumeTimeoutMs,
     resumeDeadline |-> Undefined, ws |-> Undefined]

NewSession(newSessionId, userId, clientName) ==
    [sessionId |-> newSessionId, userId |-> userId, clientName |-> clientName,
     resumeEnabled |-> FALSE, resumeTimeoutMs |-> DefaultResumeTimeoutMs,
     resumeDeadline |-> Undefined, ws |-> Undefined]

\* this.sessions.set(key, value)
MapSet(map, key, value) ==
    [k \in DOMAIN map \cup {key} |-> IF k = key THEN value ELSE map[k]]

\* this.sessions.delete(key)
MapDelete(map, key) == [k \in DOMAIN map \ {key} |-> map[k]]

WSData(id, userId, clientName, sessionId, resumed) ==
    [id |-> id, userId |-> userId, clientName |-> clientName,
     sessionId |-> sessionId, resumed |-> resumed]

\* the Session-Id header is read but not used before the checks
UpgradeRejected(method, auth, userId, clientName) ==
    /\ HandshakeStatus(method, auth, userId, clientName) # 0
    /\ last' = [NoEvent EXCEPT !.op = "upgrade", !.method = method, !.auth = auth,
                  !.userId = userId, !.clientName = clientName,
                  !.status = HandshakeStatus(method, auth, userId, clientName)]
    /\ UNCHANGED <<sessions, connections, sockets, uuidCount, now>>

\* ok is the result of bunServer.upgrade(req, {data})
UpgradeAccepted(method, auth, userId, clientName, sessionIdHeader, ok, maxUuid) ==
    LET found == ResumeLookup(sessionIdHeader, userId)
        resumed == found # Undefined
        newSessionId == uuidCount + 1
        sessionId == IF resumed THEN sessions[found].sessionId ELSE newSessionId
        connId == IF resumed THEN uuidCount + 1 ELSE uuidCount + 2
        data == WSData(connId, userId, clientName, sessionId, resumed)
    IN  /\ HandshakeStatus(method, auth, userId, clientName) = 0
        /\ connId <= maxUuid
        /\ uuidCount' = connId
        /\ sessions' = IF resumed THEN sessions
                       ELSE MapSet(sessions, newSessionId,
                                   NewSession(newSessionId, userId, clientName))
        /\ sockets' = IF ok
                      THEN MapSet(sockets, connId,
                                  [data |-> data, state |-> "pending", sent |-> <<>>])
                      ELSE sockets
        /\ last' = [NoEvent EXCEPT !.op = "upgrade", !.method = method, !.auth = auth,
                      !.userId = userId, !.clientName = clientName,
                      !.sessionIdHeader = sessionIdHeader,
                      !.status = IF ok THEN 101 ELSE 400,
                      !.resumed = resumed, !.sessionId = sessionId,
                      !.created = ~resumed, !.conn = connId]
        /\ UNCHANGED <<connections, now>>

\* req gives the sets the request's method and headers are drawn from
handleWebSocketUpgrade(req, maxUuid) ==
    \E method \in req.methods, auth \in req.auths, userId \in req.userIds,
       clientName \in req.clientNames :
        \/ UpgradeRejected(method, auth, userId, clientName)
        \/ \E sessionIdHeader \in {NoHeader} \cup (1..uuidCount), ok \in BOOLEAN :
             UpgradeAccepted(method, auth, userId, clientName, sessionIdHeader, ok,
                             maxUuid)

----------------------------------------------------------------------------
(* handleWebSocketOpen *)

\* variant: the ready frame always announces a fresh session
ReadyFrame_NeverResumed(data) ==
    [op |-> "ready", resumed |-> FALSE, sessionId |-> data.sessionId]

ReadyFrame(data) ==
    [op |-> "ready", resumed |-> data.resumed, sessionId |-> data.sessionId]

AttachSocket(session, ws) ==
    [session EXCEPT !.ws = ws, !.resumeDeadline = Undefined]

handleWebSocketOpen(c) ==
    LET data == sockets[c].data IN
    /\ sockets[c].state = "pending"
    /\ connections' = connections \cup {c}
    /\ sessions' = IF data.sessionId \in DOMAIN sessions
                   THEN [sessions EXCEPT ![data.sessionId] = AttachSocket(@, c)]
                   ELSE sessions
    /\ sockets' = [sockets EXCEPT ![c].state = "open",
                                  ![c].sent = Append(@, ReadyFrame(data))]
    /\ last' = [NoEvent EXCEPT !.op = "open", !.conn = c,
                  !.sessionId = data.sessionId, !.resumed = data.resumed]
    /\ UNCHANGED <<uuidCount, now>>

----------------------------------------------------------------------------
(* handleWebSocketMessage and configureResuming *)

\* variant: no floor of one second
ResumeTimeoutMs_NoFloor(frame) ==
    IF frame.tkind = "nan" THEN NaN
    ELSE (IF frame.tkind = "absent" THEN DefaultTimeoutSeconds ELSE frame.tval) * 1000

\* Number(payload?.timeout ?? 60), then Math.max(1, timeoutSeconds) * 1000
ResumeTimeoutMs(frame) ==
    IF frame.tkind = "nan" THEN NaN
    ELSE LET timeoutSeconds == IF frame.tkind = "absent"
                               THEN DefaultTimeoutSeconds ELSE frame.tval
         IN  (IF timeoutSeconds > 1 THEN timeoutSeconds ELSE 1) * 1000

\* variant: every session of the connection's user is configured
configureResuming_ByUser(c, frame) ==
    [sid \in DOMAIN sessions |->
        IF sessions[sid].userId = sockets[c].data.userId
        THEN [sessions[sid] EXCEPT !.resumeEnabled = TRUE,
                                   !.resumeTimeoutMs = ResumeTimeoutMs(frame)]
        ELSE sessions[sid]]

configureResuming(c, frame) ==
    LET sid == sockets[c].data.sessionId IN
    IF sid \in DOMAIN sessions
    THEN [sessions EXCEPT ![sid].resumeEnabled = TRUE,
                          ![sid].resumeTimeoutMs = ResumeTimeoutMs(frame)]
    ELSE sessions

\* variant: payload.op is not looked at, every frame that parses configures
handleWebSocketMessage_AnyOp(c, frame) ==
    /\ sockets[c].state = "open"
    /\ sessions' = IF frame.json THEN configureResuming(c, frame) ELSE sessions
    /\ last' = [NoEvent EXCEPT !.op = "message", !.conn = c,
                  !.sessionId = sockets[c].data.sessionId, !.frame = frame]
    /\ UNCHANGED <<connections, sockets, uuidCount, now>>

handleWebSocketMessage(c, frame) ==
    /\ sockets[c].state = "open"
    /\ sessions' = IF frame.json /\ frame.op = "configureResuming"
                   THEN configureResuming(c, frame)
                   ELSE sessions
    /\ last' = [NoEvent EXCEPT !.op = "message", !.conn = c,
                  !.sessionId = sockets[c].data.sessionId, !.frame = frame]
    /\ UNCHANGED <<connections, sockets, uuidCount, now>>

----------------------------------------------------------------------------
(* handleWebSocketClose *)

\* variant: a session without resuming is kept, detached, instead of deleted
CloseSession_NeverDeletes(map, sid, t) ==
    IF sid \notin DOMAIN map THEN map
    ELSE [map EXCEPT ![sid].ws = Undefined,
                     ![sid].resumeDeadline =
                         IF map[sid].resumeEnabled
                         THEN JsAdd(t, map[sid].resumeTimeoutMs) ELSE @]

\* variant: the session is deleted whether or not resuming is enabled
CloseSession_AlwaysDeletes(map, sid, t) == MapDelete(map, sid)

\* the session map after the close of a socket of session sid at time t
CloseSession(map, sid, t) ==
    IF sid \notin DOMAIN map THEN map
    ELSE IF map[sid].resumeEnabled
         THEN [map EXCEPT ![sid].ws = Undefined,
                          ![sid].resumeDeadline = JsAdd(t, map[sid].resumeTimeoutMs)]
         ELSE MapDelete(map, sid)

handleWebSocketClose(c) ==
    /\ sockets[c].state = "open"
    /\ connections' = connections \ {c}
    /\ sessions' = CloseSession(sessions, sockets[c].data.sessionId, now)
    /\ sockets' = MapDelete(sockets, c)
    /\ last' = [NoEvent EXCEPT !.op = "close", !.conn = c,
                  !.sessionId = sockets[c].data.sessionId]
    /\ UNCHANGED <<uuidCount, now>>

----------------------------------------------------------------------------
(* The clock *)

Tick(maxTime) ==
    /\ \E d \in TickSteps : now + d <= maxTime /\ now' = now + d
    /\ last' = [NoEvent EXCEPT !.op = "tick"]
    /\ UNCHANGED <<sessions, connections, sockets, uuidCount>>

----------------------------------------------------------------------------
(* The gateway *)

\* the registry before any call: new Map(), nothing registered
NoCall == [op |-> "init"]

\* the codec before any call: encodeTrack and decodeTrack keep no state
NoCodecCall == [op |-> "init"]

\* the file .cache/credentials.json does not exist
NoFile == [exists |-> FALSE, credentials |-> <<>>]

NoCredCall == [op |-> "init"]

\* the credential manager of a process that has made no call on it
NoCredentialManager ==
    /\ cache = <<>>
    /\ isDirty = FALSE
    /\ saveTimer = <<>>
    /\ timers = <<>>
    /\ saves = <<>>
    /\ cacheFile = NoFile
    /\ loadPromise = "done"
    /\ clock = 0
    /\ cleanups = 0
    /\ cred = NoCredCall

Init ==
    /\ sessions = <<>>
    /\ connections = {}
    /\ sockets = <<>>
    /\ uuidCount = 0
    /\ now = 0
    /\ last = NoEvent
    /\ managers = <<>>
    /\ registerLog = <<>>
    /\ reg = NoCall
    /\ codec = NoCodecCall
    /\ NoCredentialManager

\* Spec: the session lifecycle, with the requests that pass the handshake
\* or fail its password check and the frames that configure resuming
LifecycleRequests ==
    [methods |-> {"GET"}, auths |-> {Password, "wrong"},
     userIds |-> {"u1", "u2"}, clientNames |-> {"c1"}]
LifecycleFrames ==
    {f \in Frames : \/ ~f.json
                    \/ f.op = "configureResuming" /\ f.tkind = "nan"
                    \/ f.op = "configureResuming" /\ f.tkind = "number" /\ f.tval = 0}

Next ==
    \/ handleWebSocketUpgrade(LifecycleRequests, MaxUuid) /\ UNCHANGED <<registryVars, codecVars, credentialVars>>
    \/ \E c \in DOMAIN sockets : handleWebSocketOpen(c) /\ UNCHANGED <<registryVars, codecVars, credentialVars>>
    \/ \E c \in DOMAIN sockets, frame \in LifecycleFrames :
         handleWebSocketMessage(c, frame) /\ UNCHANGED <<registryVars, codecVars, credentialVars>>
    \/ \E c \in DOMAIN sockets : handleWebSocketClose(c) /\ UNCHANGED <<registryVars, codecVars, credentialVars>>
    \/ Tick(MaxTime) /\ UNCHANGED <<registryVars, codecVars, credentialVars>>

Spec == Init /\ [][Next]_vars

\* SpecHandshake: every combination of method and headers
AllRequests ==
    [methods |-> Methods, auths |-> AuthValues,
     userIds |-> UserIds, clientNames |-> ClientNames]

NextHandshake ==
    \/ handleWebSocketUpgrade(AllRequests, MaxUuidHandshake) /\ UNCHANGED <<registryVars, codecVars, credentialVars>>
    \/ \E c \in DOMAIN sockets : handleWebSocketOpen(c) /\ UNCHANGED <<registryVars, codecVars, credentialVars>>
    \/ \E c \in DOMAIN sockets, frame \in LifecycleFrames :
         handleWebSocketMessage(c, frame) /\ UNCHANGED <<registryVars, codecVars, credentialVars>>
    \/ \E c \in DOMAIN sockets : handleWebSocketClose(c) /\ UNCHANGED <<registryVars, codecVars, credentialVars>>
    \/ Tick(MaxTimeShort) /\ UNCHANGED <<registryVars, codecVars, credentialVars>>

SpecHandshake == Init /\ [][NextHandshake]_vars

\* SpecFrames: every inbound frame
FrameRequests ==
    [methods |-> {"GET", "POST"}, auths |-> {Password},
     userIds |-> {"u1"}, clientNames |-> {"c1"}]

NextFrames ==
    \/ handleWebSocketUpgrade(FrameRequests, MaxUuidFrames) /\ UNCHANGED <<registryVars, codecVars, credentialVars>>
    \/ \E c \in DOMAIN sockets : handleWebSocketOpen(c) /\ UNCHANGED <<registryVars, codecVars, credentialVars>>
    \/ \E c \in DOMAIN sockets, frame \in Frames :
         handleWebSocketMessage(c, frame) /\ UNCHANGED <<registryVars, codecVars, credentialVars>>
    \/ \E c \in DOMAIN sockets : handleWebSocketClose(c) /\ UNCHANGED <<registryVars, codecVars, credentialVars>>
    \/ Tick(MaxTimeShort) /\ UNCHANGED <<registryVars, codecVars, credentialVars>>

SpecFrames == Init /\ [][NextFrames]_vars

----------------------------------------------------------------------------
(* Properties of the gateway.  A step is the upgrade handler past its      *)
(* header checks exactly when last' records an upgrade with a connection   *)
(* id (data.id is generated after the checks, index.ts:151).               *)

UpgradePastChecks(e) == e.op = "upgrade" /\ e.conn # NoHeader

\* the deadline of a stored session has elapsed at time t
DeadlineElapsed(session, t) ==
    /\ session.resumeDeadline # Undefined
    /\ session.resumeDeadline # NaN
    /\ session.resumeDeadline <= t

DeadlinePending(session, t) ==
    /\ session.resumeDeadline # Undefined
    /\ session.resumeDeadline # NaN
    /\ session.resumeDeadline > t

\* C1: an upgrade whose Session-Id names a stored session of another user
\* never resumes: it gets resumed = false and a newly generated sessionId,
\* and the named session is left unchanged, whatever its resumeDeadline.
C1_NoResumeAcrossUsers ==
    [][\A sid \in DOMAIN sessions :
          (/\ UpgradePastChecks(last')
           /\ last'.sessionIdHeader = sid
           /\ sessions[sid].userId # last'.userId)
          => /\ ~last'.resumed
             /\ last'.sessionId # sid
             /\ last'.sessionId \notin DOMAIN sessions
             /\ last'.sessionId \in DOMAIN sessions'
             /\ sid \in DOMAIN sessions'
             /\ sessions'[sid] = sessions[sid]]_vars

\* C1 happens: another user's suspended session, still inside its deadline,
\* was named by an upgrade
C1_Witness ==
    /\ UpgradePastChecks(last)
    /\ last.sessionIdHeader \in DOMAIN sessions
    /\ sessions[last.sessionIdHeader].userId # last.userId
    /\ sessions[last.sessionIdHeader].resumeEnabled
    /\ DeadlinePending(sessions[last.sessionIdHeader], now)

\* C1 happens with the deadline already elapsed, and with none set
C1_WitnessElapsed ==
    /\ UpgradePastChecks(last)
    /\ last.sessionIdHeader \in DOMAIN sessions
    /\ sessions[last.sessionIdHeader].userId # last.userId
    /\ sessions[last.sessionIdHeader].resumeEnabled
    /\ DeadlineElapsed(sessions[last.sessionIdHeader], now)

C1_WitnessUnset ==
    /\ UpgradePastChecks(last)
    /\ last.sessionIdHeader \in DOMAIN sessions
    /\ sessions[last.sessionIdHeader].userId # last.userId
    /\ sessions[last.sessionIdHeader].resumeEnabled
    /\ sessions[last.sessionIdHeader].resumeDeadline = Undefined

OpenSockets == {c \in DOMAIN sockets : sockets[c].state = "open"}

\* C2: at most one open WebSocket connection carries any given sessionId
C2_OneOpenSocketPerSession ==
    \A c1, c2 \in OpenSockets :
        sockets[c1].data.sessionId = sockets[c2].data.sessionId => c1 = c2

\* C3: an upgrade whose Session-Id and User-Id match a stored session that
\* has a live socket attached is treated as a fresh session: resumed = false,
\* a newly generated sessionId, and the attached session left untouched.
C3_ActiveSessionNotResumed ==
    [][\A sid \in DOMAIN sessions :
          (/\ UpgradePastChecks(last')
           /\ last'.sessionIdHeader = sid
           /\ sessions[sid].userId = last'.userId
           /\ sessions[sid].ws # Undefined)
          => /\ ~last'.resumed
             /\ last'.sessionId # sid
             /\ sid \in DOMAIN sessions'
             /\ sessions'[sid] = sessions[sid]]_vars

\* C4: for a stored session with resumeEnabled = true and resumeDeadline d set
\* by the close of its socket, an upgrade with the same Session-Id and
\* User-Id at time now is resumed with the same sessionId iff now < d; at
\* now >= d it gets resumed = false and a freshly generated sessionId.
C4_ResumedIffBeforeDeadline ==
    [][\A sid \in DOMAIN sessions :
          (/\ UpgradePastChecks(last')
           /\ last'.sessionIdHeader = sid
           /\ sessions[sid].userId = last'.userId
           /\ sessions[sid].resumeEnabled
           /\ sessions[sid].resumeDeadline # Undefined)
          => IF sessions[sid].resumeDeadline # NaN /\ now < sessions[sid].resumeDeadline
             THEN last'.resumed /\ last'.sessionId = sid
             ELSE /\ ~last'.resumed
                  /\ last'.sessionId # sid
                  /\ last'.sessionId \notin DOMAIN sessions]_vars

\* the part of C4 that the code keeps: the same statement for the sessions
\* whose deadline is a number
C4_NumericDeadline ==
    [][\A sid \in DOMAIN sessions :
          (/\ UpgradePastChecks(last')
           /\ last'.sessionIdHeader = sid
           /\ sessions[sid].userId = last'.userId
           /\ sessions[sid].resumeEnabled
           /\ sessions[sid].resumeDeadline # Undefined
           /\ sessions[sid].resumeDeadline # NaN)
          => IF now < sessions[sid].resumeDeadline
             THEN last'.resumed /\ last'.sessionId = sid
             ELSE /\ ~last'.resumed
                  /\ last'.sessionId # sid
                  /\ last'.sessionId \notin DOMAIN sessions]_vars

\* an upgrade by the owner arrived exactly at the deadline of a session
C4_AtDeadline ==
    /\ UpgradePastChecks(last)
    /\ last.sessionIdHeader \in DOMAIN sessions
    /\ sessions[last.sessionIdHeader].userId = last.userId
    /\ sessions[last.sessionIdHeader].resumeEnabled
    /\ sessions[last.sessionIdHeader].resumeDeadline = now
    /\ ~last.resumed

\* C5: a suspended session whose resumeDeadline has elapsed is removed from
\* the session map at the latest when the next upgrade looks its id up.
C5_ExpiredRemovedAtLookup ==
    [][\A sid \in DOMAIN sessions :
          (/\ UpgradePastChecks(last')
           /\ last'.sessionIdHeader = sid
           /\ sessions[sid].ws = Undefined
           /\ sessions[sid].resumeEnabled
           /\ DeadlineElapsed(sessions[sid], now))
          => sid \notin DOMAIN sessions']_vars

\* resumeDeadline = now + resumeTimeoutMs, as JavaScript adds
DeadlineAt(t, timeoutMs) == IF timeoutMs = NaN THEN NaN ELSE t + timeoutMs

\* C6: when a socket of a stored session closes, a session with
\* resumeEnabled = true stays stored, detached, with resumeDeadline =
\* now + resumeTimeoutMs; a session with resumeEnabled = false is removed in
\* that step, and a sessionId that has left the store is never stored or
\* resumed again.
C6_CloseSuspendsOrRemoves ==
    [][/\ \A sid \in DOMAIN sessions :
            (last'.op = "close" /\ last'.sessionId = sid)
            => IF sessions[sid].resumeEnabled
               THEN /\ sid \in DOMAIN sessions'
                    /\ sessions'[sid] =
                         [sessions[sid] EXCEPT
                            !.ws = Undefined,
                            !.resumeDeadline =
                                DeadlineAt(now, sessions[sid].resumeTimeoutMs)]
               ELSE sid \notin DOMAIN sessions'
       /\ \A id \in 1..uuidCount :
            id \notin DOMAIN sessions
            => /\ id \notin DOMAIN sessions'
               /\ ~(last'.op = "upgrade" /\ last'.resumed /\ last'.sessionId = id)]_vars

\* C6 happens: a close has just removed a session without resuming
C6_Witness ==
    /\ last.op = "close"
    /\ last.sessionId \notin DOMAIN sessions

\* C6 happens: a close has just suspended a session with resuming
C6_WitnessSuspended ==
    /\ last.op = "close"
    /\ last.sessionId \in DOMAIN sessions
    /\ sessions[last.sessionId].ws = Undefined
    /\ sessions[last.sessionId].resumeDeadline = now + 1000

\* C7: every session created by an upgrade is stored with resumeEnabled =
\* false, resumeTimeoutMs = 60000, no resumeDeadline, the request's userId and
\* clientName, under a sessionId that is neither in the store already nor the
\* supplied Session-Id; no stored session is overwritten or changed.
C7_CreatedSessionIsFresh ==
    [][(UpgradePastChecks(last') /\ ~last'.resumed)
          => /\ last'.sessionId \notin DOMAIN sessions
             /\ last'.sessionId # last'.sessionIdHeader
             /\ DOMAIN sessions' = DOMAIN sessions \cup {last'.sessionId}
             /\ sessions'[last'.sessionId] =
                  [sessionId |-> last'.sessionId, userId |-> last'.userId,
                   clientName |-> last'.clientName, resumeEnabled |-> FALSE,
                   resumeTimeoutMs |-> 60000, resumeDeadline |-> Undefined,
                   ws |-> Undefined]
             /\ \A sid \in DOMAIN sessions : sessions'[sid] = sessions[sid]]_vars

\* C7 happens: a session was created next to a stored one whose id the
\* request had supplied
C7_Witness ==
    /\ UpgradePastChecks(last)
    /\ ~last.resumed
    /\ last.sessionIdHeader \in DOMAIN sessions
    /\ last.sessionId \in DOMAIN sessions
    /\ last.sessionId # last.sessionIdHeader

\* a frame that parses to {op: "configureResuming"} with a numeric or
\* absent timeout
NumericConfigure(e) ==
    /\ e.op = "message"
    /\ e.frame.json
    /\ e.frame.op = "configureResuming"
    /\ e.frame.tkind # "nan"

RequestedSeconds(frame) == IF frame.tkind = "absent" THEN 60 ELSE frame.tval

\* C8: a configureResuming frame with a numeric timeout t (60 when absent) on
\* a connection whose session is stored sets resumeEnabled = true and
\* resumeTimeoutMs = max(1, t) * 1000 >= 1000 and nothing else; when the
\* session is not stored the frame changes nothing.
C8_ConfigureResumingFloor ==
    [][NumericConfigure(last')
          => LET sid == last'.sessionId
                 t == RequestedSeconds(last'.frame)
             IN  IF sid \in DOMAIN sessions
                 THEN /\ sessions' =
                           [sessions EXCEPT
                              ![sid].resumeEnabled = TRUE,
                              ![sid].resumeTimeoutMs = IF t >= 1 THEN t * 1000 ELSE 1000]
                      /\ sessions'[sid].resumeTimeoutMs >= 1000
                      /\ UNCHANGED <<connections, sockets, uuidCount, now>>
                 ELSE UNCHANGED <<sessions, connections, sockets, uuidCount, now>>]_vars

\* C8 happens: a negative timeout was floored to one second
C8_Witness ==
    /\ NumericConfigure(last)
    /\ last.frame.tkind = "number"
    /\ last.frame.tval < 0
    /\ last.sessionId \in DOMAIN sessions
    /\ sessions[last.sessionId].resumeEnabled
    /\ sessions[last.sessionId].resumeTimeoutMs = 1000

\* C8 happens: a timeout above the floor, and the default of 60 seconds
C8_WitnessAboveFloor ==
    /\ NumericConfigure(last)
    /\ last.frame.tkind = "number"
    /\ last.frame.tval = 2
    /\ sessions[last.sessionId].resumeTimeoutMs = 2000

C8_WitnessDefault ==
    /\ NumericConfigure(last)
    /\ last.frame.tkind = "absent"
    /\ sessions[last.sessionId].resumeEnabled
    /\ sessions[last.sessionId].resumeTimeoutMs = 60000

Missing(header) == header = Null \/ header = ""

\* C9: the handshake rejects with the status of the first failing check, in
\* the order method (405), Authorization (401), User-Id (400), Client-Name
\* (400), and a rejection changes neither the session map nor the
\* connections; a request that passes all four checks is not rejected by them.
C9_FirstFailingCheck ==
    [][last'.op = "upgrade"
          => LET e == last'
                 badMethod == e.method # "GET"
                 badAuth == Missing(e.auth) \/ e.auth # "youshallnotpass"
                 badUser == Missing(e.userId)
                 badClient == Missing(e.clientName)
                 rejected == badMethod \/ badAuth \/ badUser \/ badClient
             IN  /\ badMethod => e.status = 405
                 /\ ~badMethod /\ badAuth => e.status = 401
                 /\ ~badMethod /\ ~badAuth /\ badUser => e.status = 400
                 /\ ~badMethod /\ ~badAuth /\ ~badUser /\ badClient => e.status = 400
                 /\ rejected => /\ ~UpgradePastChecks(e)
                                /\ UNCHANGED <<sessions, connections, sockets,
                                               uuidCount>>
                 /\ ~rejected => UpgradePastChecks(e)]_vars

\* C9 happens: a request failing the password check and the User-Id check
\* was answered 401 while sessions were stored and a socket was open
C9_Witness ==
    /\ last.op = "upgrade"
    /\ last.method = "GET"
    /\ last.auth = "wrong"
    /\ Missing(last.userId)
    /\ last.status = 401
    /\ DOMAIN sessions # {}
    /\ connections # {}

\* C10: the only frame sent on a connection is {op: "ready", resumed,
\* sessionId}, sent once, on open, with the values decided at upgrade time:
\* resumed = true comes with the Session-Id the client supplied, resumed =
\* false with the id of the session created for that upgrade.
C10_ReadyFrameOnce ==
    /\ [](\A c \in DOMAIN sockets :
            /\ sockets[c].state = "pending" => sockets[c].sent = <<>>
            /\ sockets[c].state = "open" =>
                 sockets[c].sent = <<[op |-> "ready",
                                      resumed |-> sockets[c].data.resumed,
                                      sessionId |-> sockets[c].data.sessionId]>>)
    /\ [][/\ (UpgradePastChecks(last') /\ last'.status = 101)
              => /\ last'.conn \notin DOMAIN sockets
                 /\ last'.conn \in DOMAIN sockets'
                 /\ sockets'[last'.conn].state = "pending"
                 /\ sockets'[last'.conn].data.resumed = last'.resumed
                 /\ sockets'[last'.conn].data.sessionId = last'.sessionId
                 /\ last'.resumed => last'.sessionId = last'.sessionIdHeader
                 /\ ~last'.resumed => last'.sessionId \in DOMAIN sessions' \ DOMAIN sessions
           /\ \A c \in DOMAIN sockets \cap DOMAIN sockets' :
                sockets'[c].data = sockets[c].data]_vars

\* C10 happens: a resumed connection is open and has been sent its ready frame
C10_Witness ==
    \E c \in DOMAIN sockets :
        /\ sockets[c].state = "open"
        /\ sockets[c].data.resumed
        /\ sockets[c].sent = <<[op |-> "ready", resumed |-> TRUE,
                                sessionId |-> sockets[c].data.sessionId]>>

\* a frame that the message handler drops: text that is not JSON, or JSON
\* whose op is not "configureResuming"
DroppedFrame(e) ==
    /\ e.op = "message"
    /\ ~(e.frame.json /\ e.frame.op = "configureResuming")

\* C11: an inbound frame that is not valid JSON, or whose op is not
\* "configureResuming", changes neither the session map nor the connection
\* set, sends nothing and leaves the connection open; a configureResuming
\* frame that follows it on the same connection is still carried out.
C11_BadFrameDropped ==
    [][/\ DroppedFrame(last')
          => /\ UNCHANGED <<sessions, connections, sockets, uuidCount, now>>
             /\ last'.conn \in connections'
             /\ sockets'[last'.conn].state = "open"
       /\ (/\ DroppedFrame(last)
           /\ last'.op = "message"
           /\ last'.conn = last.conn
           /\ last'.frame.json
           /\ last'.frame.op = "configureResuming"
           /\ last'.sessionId \in DOMAIN sessions)
          => sessions'[last'.sessionId].resumeEnabled]_vars

\* C11 happens: a frame that is JSON without a known op was dropped on an
\* open connection whose session does not have resuming configured
C11_Witness ==
    /\ DroppedFrame(last)
    /\ last.frame.json
    /\ last.conn \in connections
    /\ last.sessionId \in DOMAIN sessions
    /\ ~sessions[last.sessionId].resumeEnabled

\* the session an event of a connection belongs to
EventSession(e) == sockets[e.conn].data.sessionId

\* C12: an open, message or close event of a connection changes at most the
\* session whose id is that connection's sessionId, and an upgrade (like the
\* passing of time) changes no stored session: every other stored session
\* stays stored with all its fields unchanged.
C12_OtherSessionsUntouched ==
    [][\A sid \in DOMAIN sessions :
          /\ (last'.op \in {"open", "message", "close"} /\ sid # EventSession(last'))
             => sid \in DOMAIN sessions' /\ sessions'[sid] = sessions[sid]
          /\ last'.op \in {"upgrade", "tick"}
             => sid \in DOMAIN sessions' /\ sessions'[sid] = sessions[sid]]_vars

\* C12 happens: a connection was closed and its session removed while another
\* session of the same user stays stored with its socket attached
C12_Witness ==
    /\ last.op = "close"
    /\ last.sessionId \notin DOMAIN sessions
    /\ \E sid \in DOMAIN sessions :
         /\ sessions[sid].ws # Undefined
         /\ sessions[sid].userId = "u1"
         /\ sessions[sid].resumeEnabled

----------------------------------------------------------------------------
(* Part 2: SourceManagerRegistry                                           *)
(*                                                                         *)
(* A SourceManager object is a record of its name and of what its methods  *)
(* do: can[url] is what canHandle(url) does ("yes", "no" or "throw"), res  *)
(* is what resolve() settles with ("single": one TrackInfo, "empty": [],   *)
(* "list": two TrackInfo, "reject": a rejected promise) and enc is the set *)
(* of tracks on which encode() throws.  serial tells the objects apart: it *)
(* is the number of the register() call the object was created for.        *)
(* A thrown value is [isError, message]: resolve and encode throw Error    *)
(* objects, canHandle throws a value that is not an Error.                 *)

MaxRegister == 3        \* SpecRegistry: register() is called at most MaxRegister times
MaxRegisterLoad == 2    \* SpecLoadTracks: bound on the register() calls

Identifiers == {"x", "y"}
Tracks == {"t1", "t2"}
ManagerNames == {"a", "b"}

NoManager ==
    [name |-> Null, serial |-> 0, can |-> [u \in Identifiers |-> "no"],
     res |-> "none", enc |-> {}]
NoException == [isError |-> FALSE, message |-> <<"none", "">>]
NoValue == [isArray |-> FALSE, items |-> <<>>]

\* the managers SpecRegistry registers: canHandle never throws
DispatchKinds ==
    {[name |-> n, can |-> c, res |-> r, enc |-> {}] :
        n \in ManagerNames,
        c \in {[u \in Identifiers |-> "no"],
               [u \in Identifiers |-> IF u = "x" THEN "yes" ELSE "no"],
               [u \in Identifiers |-> "yes"]},
        r \in {"single", "reject"}}

\* the managers SpecLoadTracks registers under the name "a": every outcome of
\* canHandle and resolve with an encode that succeeds, and an encode that
\* fails on the single track, on the first or on the second track of a list;
\* under the name "b" a plain manager
LoadKinds ==
    {[name |-> "a", can |-> [u \in Identifiers |-> c], res |-> r, enc |-> {}] :
        c \in {"yes", "no", "throw"},
        r \in {"single", "empty", "list", "reject"}}
    \cup {[name |-> "a", can |-> [u \in Identifiers |-> "yes"], res |-> r, enc |-> e] :
            r \in {"single", "list"}, e \in {{"t1"}, {"t2"}}}
    \cup {[name |-> "b", can |-> [u \in Identifiers |-> c], res |-> "single",
           enc |-> {}] : c \in {"yes", "no"}}

\* new SourceManager object of the given kind, for the next register() call
NewManager(kind) ==
    [name |-> kind.name, serial |-> Len(registerLog) + 1, can |-> kind.can,
     res |-> kind.res, enc |-> kind.enc]

Call(m, method, arg) == [mgr |-> m, method |-> method, arg |-> arg]

\* the position of the key in the Map, 0 if it is not a key
KeyIndex(entries, name) ==
    IF \E i \in 1..Len(entries) : entries[i].name = name
    THEN CHOOSE i \in 1..Len(entries) : entries[i].name = name
    ELSE 0

\* variant: a re-registered name moves to the end of the Map, as after
\* delete(name) followed by set(name, manager)
RegistrySet_MovesToEnd(entries, m) ==
    Append(SelectSeq(entries, LAMBDA e : e.name # m.name), m)

\* variant: a re-registered manager is stored next to the one it replaces
RegistrySet_KeepsOld(entries, m) == Append(entries, m)

\* this.managers.set(manager.name, manager): a Map keeps the position of a
\* key that is already present and appends a new key
RegistrySet(entries, m) ==
    IF KeyIndex(entries, m.name) # 0
    THEN [entries EXCEPT ![KeyIndex(entries, m.name)] = m]
    ELSE Append(entries, m)

\* this.managers.get(name)
RegistryGet(entries, name) ==
    IF KeyIndex(entries, name) # 0 THEN entries[KeyIndex(entries, name)]
    ELSE NoManager

RECURSIVE FindManagerFrom(_, _, _)
\* the for-of loop of findManager from position i of this.managers.values()
FindManagerFrom(entries, url, i) ==
    IF i > Len(entries)
    THEN [threw |-> FALSE, exc |-> NoException, manager |-> NoManager, calls |-> <<>>]
    ELSE LET m == entries[i]
             call == Call(m, "canHandle", url)
         IN  IF m.can[url] = "throw"
             THEN [threw |-> TRUE,
                   exc |-> [isError |-> FALSE, message |-> <<"canHandle failed", "">>],
                   manager |-> NoManager, calls |-> <<call>>]
             ELSE IF m.can[url] = "yes"
             THEN [threw |-> FALSE, exc |-> NoException, manager |-> m,
                   calls |-> <<call>>]
             ELSE LET rest == FindManagerFrom(entries, url, i + 1)
                  IN  [rest EXCEPT !.calls = <<call>> \o @]

\* variant: the scan goes on after a match, the last match wins
FindManager_LastMatch(entries, url) ==
    LET matches == {i \in 1..Len(entries) : entries[i].can[url] = "yes"}
    IN  [threw |-> FALSE, exc |-> NoException,
         manager |-> IF matches = {} THEN NoManager
                     ELSE entries[CHOOSE i \in matches : \A j \in matches : j <= i],
         calls |-> [i \in 1..Len(entries) |-> Call(entries[i], "canHandle", url)]]

FindManager(entries, url) == FindManagerFrom(entries, url, 1)

\* manager.resolve(url), awaited
ManagerResolve(m, url) ==
    [threw |-> m.res = "reject",
     exc |-> IF m.res = "reject"
             THEN [isError |-> TRUE, message |-> <<"resolve failed", url>>]
             ELSE NoException,
     value |-> CASE m.res = "single" -> [isArray |-> FALSE, items |-> <<"t1">>]
                 [] m.res = "empty" -> [isArray |-> TRUE, items |-> <<>>]
                 [] m.res = "list" -> [isArray |-> TRUE, items |-> <<"t1", "t2">>]
                 [] OTHER -> NoValue,
     calls |-> <<Call(m, "resolve", url)>>]

\* variant: resolve is retried once when it rejects
RegistryResolve_Retries(entries, url) ==
    LET f == FindManager(entries, url) IN
    IF f.threw THEN [threw |-> TRUE, exc |-> f.exc, value |-> NoValue, calls |-> f.calls]
    ELSE IF f.manager = NoManager
    THEN [threw |-> TRUE,
          exc |-> [isError |-> TRUE,
                   message |-> <<"No source manager found for URL: ", url>>],
          value |-> NoValue, calls |-> f.calls]
    ELSE LET r == ManagerResolve(f.manager, url)
         IN  [r EXCEPT !.calls = f.calls \o @ \o (IF r.threw THEN r.calls ELSE <<>>)]

\* SourceManagerRegistry.resolve(url)
RegistryResolve(entries, url) ==
    LET f == FindManager(entries, url) IN
    IF f.threw THEN [threw |-> TRUE, exc |-> f.exc, value |-> NoValue, calls |-> f.calls]
    ELSE IF f.manager = NoManager
    THEN [threw |-> TRUE,
          exc |-> [isError |-> TRUE,
                   message |-> <<"No source manager found for URL: ", url>>],
          value |-> NoValue, calls |-> f.calls]
    ELSE LET r == ManagerResolve(f.manager, url)
         IN  [r EXCEPT !.calls = f.calls \o @]

----------------------------------------------------------------------------
(* GET /v4/loadtracks, src/src/endpoints/loadtracks.route.ts               *)
(* (src/unnamed/part_003 is an earlier revision: it tests the identifier   *)
(* with !identifier only and is otherwise the same)                        *)

\* the identifier query parameter: absent, empty, blank, or an identifier
QueryIdentifiers == {Null, "", " "} \cup Identifiers

\* getRequired(sp, key): v && v.trim() ? v : null
GetRequired(v) == IF v = Null \/ v = "" \/ v = " " THEN Null ELSE v

NoResponse == [status |-> 0, loadType |-> "none", data |-> <<>>]
TextResponse(status) == [status |-> status, loadType |-> "none", data |-> <<>>]
\* Response.json(body) has status 200
JsonResponse(loadType, data) == [status |-> 200, loadType |-> loadType, data |-> data]

\* variant: every error is reported with severity "fault"
ErrorData_AlwaysFault(message, severity) ==
    [message |-> message, severity |-> "fault", cause |-> "Unknown"]

ErrorData(message, severity) ==
    [message |-> message, severity |-> severity, cause |-> "Unknown"]

\* manager.encode(track)
ManagerEncode(m, track) ==
    [threw |-> track \in m.enc,
     exc |-> IF track \in m.enc
             THEN [isError |-> TRUE, message |-> <<"encode failed", track>>]
             ELSE NoException,
     value |-> <<m.serial, track>>,
     calls |-> <<Call(m, "encode", track)>>]

TrackData(encoded, info) == [encoded |-> encoded, info |-> info, pluginInfo |-> <<>>]

RECURSIVE EncodeAll(_, _, _)
\* result.map(track => ({encoded: manager.encode(track), info: track,
\* pluginInfo: {}})) from position i; the first throw ends the map
EncodeAll(m, items, i) ==
    IF i > Len(items)
    THEN [threw |-> FALSE, exc |-> NoException, data |-> <<>>, calls |-> <<>>]
    ELSE LET e == ManagerEncode(m, items[i]) IN
         IF e.threw
         THEN [threw |-> TRUE, exc |-> e.exc, data |-> <<>>, calls |-> e.calls]
         ELSE LET rest == EncodeAll(m, items, i + 1)
              IN  [threw |-> rest.threw, exc |-> rest.exc,
                   data |-> IF rest.threw THEN <<>>
                            ELSE <<TrackData(e.value, items[i])>> \o rest.data,
                   calls |-> e.calls \o rest.calls]

\* variant: the entries are collected in reverse order
EncodeResults_Reversed(m, items) ==
    LET all == EncodeAll(m, items, 1)
    IN  [all EXCEPT !.data = [i \in 1..Len(all.data) |-> all.data[Len(all.data) + 1 - i]]]

\* result.map(...) over the whole resolve result
EncodeResults(m, items) == EncodeAll(m, items, 1)

Returned(response, calls) ==
    [threw |-> FALSE, exc |-> NoException, response |-> response, calls |-> calls]
Thrown(exc, calls) ==
    [threw |-> TRUE, exc |-> exc, response |-> NoResponse, calls |-> calls]

\* the body of the handler's try block
LoadTracksTry(entries, param) ==
    LET identifier == GetRequired(param) IN
    IF identifier = Null THEN Returned(TextResponse(400), <<>>)
    ELSE
    LET f == FindManager(entries, identifier) IN
    IF f.threw THEN Thrown(f.exc, f.calls)
    ELSE IF f.manager = NoManager
    THEN Returned(JsonResponse("error",
                    ErrorData(<<"No source manager found for identifier: ", identifier>>,
                              "common")),
                  f.calls)
    ELSE
    LET manager == f.manager
        r == ManagerResolve(manager, identifier)
    IN
    IF r.threw THEN Thrown(r.exc, f.calls \o r.calls)
    ELSE IF ~r.value.isArray
    THEN LET e == ManagerEncode(manager, r.value.items[1]) IN
         IF e.threw THEN Thrown(e.exc, f.calls \o r.calls \o e.calls)
         ELSE Returned(JsonResponse("track", TrackData(e.value, r.value.items[1])),
                       f.calls \o r.calls \o e.calls)
    ELSE IF Len(r.value.items) = 0
    THEN Returned(JsonResponse("empty", <<>>), f.calls \o r.calls)
    ELSE LET all == EncodeResults(manager, r.value.items) IN
         IF all.threw THEN Thrown(all.exc, f.calls \o r.calls \o all.calls)
         ELSE Returned(JsonResponse("search", all.data),
                       f.calls \o r.calls \o all.calls)

\* variant: only the await of resolve is inside the try block
LoadTracksHandler_CatchesResolveOnly(entries, param) ==
    LET t == LoadTracksTry(entries, param) IN
    IF t.threw /\ t.calls # <<>> /\ t.calls[Len(t.calls)].method = "resolve"
    THEN Returned(JsonResponse("error", ErrorData(t.exc.message, "fault")), t.calls)
    ELSE t

\* the handler: try { ... } catch (error) { loadType "error", severity "fault" }
LoadTracksHandler(entries, param) ==
    LET t == LoadTracksTry(entries, param) IN
    IF t.threw
    THEN Returned(JsonResponse("error",
                    ErrorData(IF t.exc.isError THEN t.exc.message
                              ELSE <<"Unknown error", "">>,
                              "fault")),
                  t.calls)
    ELSE t

\* Router.fetch for GET /v4/loadtracks: a throw of the handler becomes a 500
RouterFetch(handled) ==
    IF handled.threw
    THEN [handled EXCEPT !.response = TextResponse(500)]
    ELSE handled

----------------------------------------------------------------------------
(* The calls on the registry and the route *)

RegCall(op, arg) ==
    [op |-> op, arg |-> arg, threw |-> FALSE, exc |-> NoException,
     manager |-> NoManager, all |-> <<>>, value |-> NoValue,
     response |-> NoResponse, handlerThrew |-> FALSE, calls |-> <<>>]

register(kinds, maxRegister) ==
    \E kind \in kinds :
        /\ Len(registerLog) < maxRegister
        /\ managers' = RegistrySet(managers, NewManager(kind))
        /\ registerLog' = Append(registerLog, NewManager(kind))
        /\ reg' = [RegCall("register", kind.name) EXCEPT !.manager = NewManager(kind)]

get ==
    \E name \in ManagerNames :
        /\ reg' = [RegCall("get", name) EXCEPT !.manager = RegistryGet(managers, name)]
        /\ UNCHANGED <<managers, registerLog>>

\* getAll(): Array.from(this.managers.values())
getAll ==
    /\ reg' = [RegCall("getAll", Null) EXCEPT !.all = managers]
    /\ UNCHANGED <<managers, registerLog>>

\* keys(): Array.from(this.managers.keys())
keys ==
    /\ reg' = [RegCall("keys", Null) EXCEPT
                  !.all = [i \in 1..Len(managers) |-> managers[i].name]]
    /\ UNCHANGED <<managers, registerLog>>

findManager ==
    \E url \in Identifiers :
        LET f == FindManager(managers, url) IN
        /\ reg' = [RegCall("findManager", url) EXCEPT
                      !.threw = f.threw, !.exc = f.exc, !.manager = f.manager,
                      !.calls = f.calls]
        /\ UNCHANGED <<managers, registerLog>>

resolve ==
    \E url \in Identifiers :
        LET r == RegistryResolve(managers, url) IN
        /\ reg' = [RegCall("resolve", url) EXCEPT
                      !.threw = r.threw, !.exc = r.exc, !.value = r.value,
                      !.calls = r.calls]
        /\ UNCHANGED <<managers, registerLog>>

loadTracks ==
    \E param \in QueryIdentifiers :
        LET h == LoadTracksHandler(managers, param)
            r == RouterFetch(h)
        IN
        /\ reg' = [RegCall("loadTracks", param) EXCEPT
                      !.handlerThrew = h.threw, !.exc = h.exc,
                      !.response = r.response, !.calls = r.calls]
        /\ UNCHANGED <<managers, registerLog>>

\* SpecRegistry: the registry with managers whose canHandle answers
NextRegistry ==
    \/ register(DispatchKinds, MaxRegister) /\ UNCHANGED <<gatewayVars, codecVars, credentialVars>>
    \/ get /\ UNCHANGED <<gatewayVars, codecVars, credentialVars>>
    \/ getAll /\ UNCHANGED <<gatewayVars, codecVars, credentialVars>>
    \/ keys /\ UNCHANGED <<gatewayVars, codecVars, credentialVars>>
    \/ findManager /\ UNCHANGED <<gatewayVars, codecVars, credentialVars>>
    \/ resolve /\ UNCHANGED <<gatewayVars, codecVars, credentialVars>>

SpecRegistry == Init /\ [][NextRegistry]_vars

\* SpecLoadTracks: the route, with managers whose methods may fail
NextLoadTracks ==
    \/ register(LoadKinds, MaxRegisterLoad) /\ UNCHANGED <<gatewayVars, codecVars, credentialVars>>
    \/ findManager /\ UNCHANGED <<gatewayVars, codecVars, credentialVars>>
    \/ resolve /\ UNCHANGED <<gatewayVars, codecVars, credentialVars>>
    \/ loadTracks /\ UNCHANGED <<gatewayVars, codecVars, credentialVars>>

SpecLoadTracks == Init /\ [][NextLoadTracks]_vars

----------------------------------------------------------------------------
(* Properties of the registry *)

\* the manager objects a registry holds after the register() calls of log:
\* for every name the object of the latest call
CurrentManagers(log) ==
    {log[i] : i \in {k \in 1..Len(log) :
                        \A j \in (k + 1)..Len(log) : log[j].name # log[k].name}}

\* the current managers whose canHandle(url) is true
Candidates(log, url) == {m \in CurrentManagers(log) : m.can[url] = "yes"}

\* the register() call that registered the name for the first time
FirstRegistered(log, name) ==
    CHOOSE i \in 1..Len(log) :
        /\ log[i].name = name
        /\ \A j \in 1..(i - 1) : log[j].name # name

\* C13 as stated: findManager(identifier) returns, among the currently
\* registered managers whose canHandle(identifier) is true, the one that was
\* registered first (serial is the position of the manager's own register()
\* call), and none when no canHandle matches.
C13_FirstRegisteredMatch ==
    (reg.op = "findManager" /\ ~reg.threw)
        => LET cands == Candidates(registerLog, reg.arg) IN
           IF cands = {} THEN reg.manager = NoManager
           ELSE /\ reg.manager \in cands
                /\ \A m \in cands : reg.manager.serial <= m.serial

\* C13 amended: findManager(identifier) returns, among the currently
\* registered managers whose canHandle(identifier) is true, the one whose name
\* was registered first (a re-registered manager keeps the place of its
\* name), and none when no canHandle matches; canHandle is asked of no
\* manager after the first match.
C13_FirstMatchInNameOrder ==
    (reg.op = "findManager" /\ ~reg.threw)
        => LET cands == Candidates(registerLog, reg.arg) IN
           IF cands = {} THEN reg.manager = NoManager
           ELSE /\ reg.manager \in cands
                /\ \A m \in cands :
                      FirstRegistered(registerLog, reg.manager.name)
                          <= FirstRegistered(registerLog, m.name)
                /\ reg.calls[Len(reg.calls)].mgr = reg.manager
                /\ \A i \in 1..(Len(reg.calls) - 1) : reg.calls[i].mgr \notin cands

\* findManager chose between two matching managers, and chose the one
\* registered later, under the name registered earlier
C13_Witness ==
    /\ reg.op = "findManager"
    /\ Cardinality(Candidates(registerLog, reg.arg)) = 2
    /\ reg.manager \in Candidates(registerLog, reg.arg)
    /\ \E m \in Candidates(registerLog, reg.arg) : m.serial < reg.manager.serial

\* the manager objects an earlier register() call put under a name that a
\* later call registered again
Overwritten(log) == {log[i] : i \in 1..Len(log)} \ CurrentManagers(log)

\* C14: after any sequence of register calls the registry holds exactly one
\* manager per distinct name, the one of the latest register call for that
\* name; get(name) returns it, and an overwritten manager is returned by none
\* of get, getAll and findManager.
C14_LastWriteWins ==
    /\ \A i, j \in 1..Len(managers) : managers[i].name = managers[j].name => i = j
    /\ {managers[i] : i \in 1..Len(managers)} = CurrentManagers(registerLog)
    /\ reg.op = "get"
          => /\ \A m \in CurrentManagers(registerLog) :
                   m.name = reg.arg => reg.manager = m
             /\ reg.manager \notin Overwritten(registerLog)
    /\ reg.op = "getAll"
          => /\ \A i \in 1..Len(reg.all) : reg.all[i] \notin Overwritten(registerLog)
             /\ {reg.all[i] : i \in 1..Len(reg.all)} = CurrentManagers(registerLog)
    /\ reg.op = "findManager" => reg.manager \notin Overwritten(registerLog)

\* get(name) after the name was registered twice
C14_Witness ==
    /\ reg.op = "get"
    /\ \E m \in Overwritten(registerLog) : m.name = reg.arg
    /\ reg.manager.name = reg.arg

\* the calls of one method among the calls an operation made
CallsOf(calls, method) == {i \in 1..Len(calls) : calls[i].method = method}

\* C15: registry.resolve(identifier) fails with a 'no source manager' error
\* and calls no manager's resolve when findManager returns none; otherwise it
\* calls resolve exactly once, on the manager findManager selects, with the
\* identifier unchanged, and returns or rejects with that manager's outcome.
C15_ResolveDelegatesOnce ==
    reg.op = "resolve"
        => LET selected == FindManager(managers, reg.arg).manager
               resolves == CallsOf(reg.calls, "resolve")
           IN  IF selected = NoManager
               THEN /\ reg.threw
                    /\ reg.exc.isError
                    /\ reg.exc.message = <<"No source manager found for URL: ", reg.arg>>
                    /\ resolves = {}
               ELSE /\ Cardinality(resolves) = 1
                    /\ \A i \in resolves :
                          /\ reg.calls[i].mgr = selected
                          /\ reg.calls[i].arg = reg.arg
                    /\ reg.threw = ManagerResolve(selected, reg.arg).threw
                    /\ reg.exc = ManagerResolve(selected, reg.arg).exc
                    /\ reg.value = ManagerResolve(selected, reg.arg).value

\* resolve() of an identifier whose manager rejects
C15_Witness ==
    /\ reg.op = "resolve"
    /\ reg.threw
    /\ CallsOf(reg.calls, "resolve") # {}

\* resolve() of an identifier no manager handles, with managers registered
C15_WitnessNone ==
    /\ reg.op = "resolve"
    /\ managers # <<>>
    /\ FindManager(managers, reg.arg).manager = NoManager

----------------------------------------------------------------------------
(* Properties of GET /v4/loadtracks *)

\* the call fails: canHandle or encode throws, resolve rejects
CallFails(c) ==
    \/ c.method = "canHandle" /\ c.mgr.can[c.arg] = "throw"
    \/ c.method = "resolve" /\ c.mgr.res = "reject"
    \/ c.method = "encode" /\ c.arg \in c.mgr.enc

\* the first registered manager whose canHandle(url) is true, when no
\* canHandle before it throws
Handles(m, url) ==
    \E i \in 1..Len(managers) :
        /\ managers[i] = m
        /\ m.can[url] = "yes"
        /\ \A j \in 1..(i - 1) : managers[j].can[url] = "no"

\* a request with an identifier that manager m handles and whose resolve and
\* encode calls all succeed
Served(e, m) ==
    /\ e.op = "loadTracks"
    /\ e.arg \in Identifiers
    /\ Handles(m, e.arg)
    /\ \A i \in 1..Len(e.calls) : ~CallFails(e.calls[i])

\* C16: when a manager handles the identifier, the response follows the
\* manager's resolve result: a single track gives loadType "track" with
\* {encoded, info, pluginInfo}; an empty sequence gives "empty" with {}; n
\* tracks give "search" with n entries in the same order; every encoded is
\* the same manager's encode of the entry's info.
C16_LoadTypeFollowsResult ==
    \A m \in {managers[i] : i \in 1..Len(managers)} :
        Served(reg, m)
            => LET result == ManagerResolve(m, reg.arg).value
                   n == Len(result.items)
                   encodes == CallsOf(reg.calls, "encode")
               IN  /\ reg.response.status = 200
                   /\ \A i \in encodes : reg.calls[i].mgr = m
                   /\ ~result.isArray
                        => /\ reg.response.loadType = "track"
                           /\ reg.response.data =
                                [encoded |-> ManagerEncode(m, result.items[1]).value,
                                 info |-> result.items[1], pluginInfo |-> <<>>]
                           /\ Cardinality(encodes) = 1
                   /\ (result.isArray /\ n = 0)
                        => /\ reg.response.loadType = "empty"
                           /\ reg.response.data = <<>>
                           /\ encodes = {}
                   /\ (result.isArray /\ n > 0)
                        => /\ reg.response.loadType = "search"
                           /\ Len(reg.response.data) = n
                           /\ \A i \in 1..n :
                                reg.response.data[i] =
                                    [encoded |-> ManagerEncode(m, result.items[i]).value,
                                     info |-> result.items[i], pluginInfo |-> <<>>]
                           /\ Cardinality(encodes) = n

\* a search response with two entries
C16_Witness ==
    /\ reg.op = "loadTracks"
    /\ reg.response.loadType = "search"
    /\ Len(reg.response.data) = 2
    /\ reg.response.data[1].info # reg.response.data[2].info

\* a track response
C16_WitnessTrack == reg.op = "loadTracks" /\ reg.response.loadType = "track"

\* an empty response
C16_WitnessEmpty == reg.op = "loadTracks" /\ reg.response.loadType = "empty"

\* a request with an identifier for which every registered canHandle is false
NoMatch(e) ==
    /\ e.op = "loadTracks"
    /\ e.arg \in Identifiers
    /\ \A i \in 1..Len(managers) : managers[i].can[e.arg] = "no"

\* C17: when no registered manager's canHandle matches the identifier, the
\* answer is HTTP 200 with loadType "error" and data {message, severity
\* "common", cause "Unknown"}, the message naming the identifier, and neither
\* resolve nor encode of any manager is invoked.
C17_NoManagerError ==
    NoMatch(reg)
        => /\ reg.response.status = 200
           /\ reg.response.loadType = "error"
           /\ reg.response.data.severity = "common"
           /\ reg.response.data.cause = "Unknown"
           /\ reg.response.data.message[2] = reg.arg
           /\ DOMAIN reg.response.data = {"message", "severity", "cause"}
           /\ CallsOf(reg.calls, "resolve") = {}
           /\ CallsOf(reg.calls, "encode") = {}

\* the request found managers registered, and none of them matched
C17_Witness ==
    /\ NoMatch(reg)
    /\ Len(managers) = 2
    /\ CallsOf(reg.calls, "canHandle") = {1, 2}

\* a request during which a call on a manager failed
Failed(e) ==
    /\ e.op = "loadTracks"
    /\ \E i \in 1..Len(e.calls) : CallFails(e.calls[i])

\* C18: a failure of canHandle, resolve or encode while serving the request
\* is caught inside the handler and answered with HTTP 200, loadType "error",
\* severity "common" or "fault" and cause "Unknown"; the handler throws
\* nothing and no "track" or "search" payload is returned.
C18_FailuresReported ==
    /\ reg.op = "loadTracks" => ~reg.handlerThrew /\ reg.response.status # 500
    /\ Failed(reg)
          => /\ reg.response.status = 200
             /\ reg.response.loadType = "error"
             /\ reg.response.data.severity \in {"common", "fault"}
             /\ reg.response.data.cause = "Unknown"

\* encode failed on the second entry of a list, after the first was encoded
C18_Witness ==
    /\ Failed(reg)
    /\ Cardinality(CallsOf(reg.calls, "encode")) = 2
    /\ reg.response.loadType = "error"

\* canHandle threw
C18_WitnessCanHandle ==
    /\ Failed(reg)
    /\ reg.calls[Len(reg.calls)].method = "canHandle"

\* resolve rejected
C18_WitnessResolve ==
    /\ Failed(reg)
    /\ reg.calls[Len(reg.calls)].method = "resolve"

----------------------------------------------------------------------------
(* Part 3: the track codec, src/unnamed/part_000                           *)
(*                                                                         *)
(* A JavaScript string is the sequence of its code points (all in the      *)
(* basic plane), a Buffer the sequence of its bytes, a base64 string the   *)
(* sequence of its alphabet positions (0..63, Base64Pad for "=").  A       *)
(* bigint and an integral number are a sign and a magnitude written in     *)
(* four 16-bit limbs, most significant first, so that 64-bit values need   *)
(* no arithmetic beyond 2^17.                                              *)

RECURSIVE Pow2(_)
Pow2(n) == IF n = 0 THEN 1 ELSE 2 * Pow2(n - 1)

RECURSIVE BitLen(_)
\* number of significant bits of a natural
BitLen(n) == IF n = 0 THEN 0 ELSE 1 + BitLen(n \div 2)

\* U+FFFD, which Buffer.toString('utf8') puts for a byte that is not UTF-8
ReplacementChar == 65533

\* the UTF-8 bytes of one code point
Utf8Bytes(cp) ==
    IF cp < 128 THEN <<cp>>
    ELSE IF cp < 2048 THEN <<192 + (cp \div 64), 128 + (cp % 64)>>
    ELSE <<224 + (cp \div 4096), 128 + ((cp \div 64) % 64), 128 + (cp % 64)>>

RECURSIVE Utf8EncodeRange(_, _, _)
\* the bytes of the characters lo..hi of str, by halves so that a string of
\* 65536 characters is encoded at a recursion depth of 16
Utf8EncodeRange(str, lo, hi) ==
    IF lo > hi THEN <<>>
    ELSE IF lo = hi THEN Utf8Bytes(str[lo])
    ELSE LET mid == (lo + hi) \div 2
         IN  Utf8EncodeRange(str, lo, mid) \o Utf8EncodeRange(str, mid + 1, hi)

\* Buffer.from(str, 'utf8')
Utf8Encode(str) == Utf8EncodeRange(str, 1, Len(str))

IsContinuation(b) == b \in 128..191

RECURSIVE Utf8DecodeFrom(_, _)
\* buffer.toString('utf8') from byte i: sequences of one, two and three
\* bytes; any other byte becomes U+FFFD
Utf8DecodeFrom(bytes, i) ==
    IF i > Len(bytes) THEN <<>>
    ELSE LET b == bytes[i] IN
         IF b < 128 THEN <<b>> \o Utf8DecodeFrom(bytes, i + 1)
         ELSE IF /\ b \in 194..223
                 /\ i + 1 <= Len(bytes)
                 /\ IsContinuation(bytes[i + 1])
         THEN <<(b - 192) * 64 + (bytes[i + 1] - 128)>> \o Utf8DecodeFrom(bytes, i + 2)
         ELSE IF /\ b \in 224..239
                 /\ i + 2 <= Len(bytes)
                 /\ IsContinuation(bytes[i + 1])
                 /\ IsContinuation(bytes[i + 2])
                 /\ b = 224 => bytes[i + 1] >= 160
                 /\ b = 237 => bytes[i + 1] <= 159
         THEN <<(b - 224) * 4096 + (bytes[i + 1] - 128) * 64 + (bytes[i + 2] - 128)>>
                  \o Utf8DecodeFrom(bytes, i + 3)
         ELSE <<ReplacementChar>> \o Utf8DecodeFrom(bytes, i + 1)

Utf8Decode(bytes) == Utf8DecodeFrom(bytes, 1)

\* the position of "=" in a base64 string
Base64Pad == 64

\* buffer.toString('base64'): character k is a sextet of the three bytes of
\* its group, or "=" where the group has no such byte
Base64Encode(bytes) ==
    LET n == Len(bytes)
        At(j) == IF j <= n THEN bytes[j] ELSE 0
    IN  <<>> \o [k \in 1..(4 * ((n + 2) \div 3)) |->
                    LET i == (3 * ((k - 1) \div 4)) + 1
                        b1 == At(i)
                        b2 == At(i + 1)
                        b3 == At(i + 2)
                    IN  CASE k % 4 = 1 -> b1 \div 4
                          [] k % 4 = 2 -> ((b1 % 4) * 16) + (b2 \div 16)
                          [] k % 4 = 3 -> IF i + 1 <= n THEN ((b2 % 16) * 4) + (b3 \div 64)
                                          ELSE Base64Pad
                          [] OTHER -> IF i + 2 <= n THEN b3 % 64 ELSE Base64Pad]

RECURSIVE Base64DecodeFrom(_, _)
\* Buffer.from(str, 'base64') from character i: stops at "=" or at the end
Base64DecodeFrom(chars, i) ==
    LET ends(k) == k > Len(chars) \/ chars[k] = Base64Pad IN
    IF ends(i) \/ ends(i + 1) THEN <<>>
    ELSE LET byte1 == (chars[i] * 4) + (chars[i + 1] \div 16) IN
         IF ends(i + 2) THEN <<byte1>>
         ELSE LET byte2 == ((chars[i + 1] % 16) * 16) + (chars[i + 2] \div 4) IN
              IF ends(i + 3) THEN <<byte1, byte2>>
              ELSE <<byte1, byte2, ((chars[i + 2] % 4) * 64) + chars[i + 3]>>
                       \o Base64DecodeFrom(chars, i + 4)

Base64Decode(chars) == Base64DecodeFrom(chars, 1)

\* 2^16, the base of the limbs
Limb == 65536

\* an integer: the sign and the four limbs of the magnitude
Integer(neg, m3, m2, m1, m0) == [neg |-> neg, mag |-> <<m3, m2, m1, m0>>]

Zero == Integer(FALSE, 0, 0, 0, 0)

\* limbs + 1 when inc, modulo 2^64
AddCarry(limbs, inc) ==
    LET s0 == limbs[4] + (IF inc THEN 1 ELSE 0)
        s1 == limbs[3] + (s0 \div Limb)
        s2 == limbs[2] + (s1 \div Limb)
        s3 == limbs[1] + (s2 \div Limb)
    IN  <<s3 % Limb, s2 % Limb, s1 % Limb, s0 % Limb>>

\* the two's complement of a 64-bit pattern
Negate(limbs) ==
    AddCarry([i \in 1..4 |-> (Limb - 1) - limbs[i]], TRUE)

\* the range of BigInt64: -2^63 .. 2^63 - 1
InInt64(v) ==
    \/ v.mag[1] < Limb \div 2
    \/ v.neg /\ v.mag = <<Limb \div 2, 0, 0, 0>>

\* buf.writeBigInt64BE(v): the eight bytes of v, big-endian
Int64Bytes(v) ==
    LET limbs == IF v.neg THEN Negate(v.mag) ELSE v.mag
    IN  [i \in 1..8 |-> IF i % 2 = 1 THEN limbs[(i + 1) \div 2] \div 256
                                    ELSE limbs[i \div 2] % 256]

\* buffer.readBigInt64BE(pos): the signed value of the eight bytes after pos
ReadBigInt64(buf, pos) ==
    LET limbs == [i \in 1..4 |-> buf[pos + 2 * i - 1] * 256 + buf[pos + 2 * i]]
    IN  IF limbs[1] >= Limb \div 2
        THEN [neg |-> TRUE, mag |-> Negate(limbs)]
        ELSE [neg |-> FALSE, mag |-> limbs]

\* mantissa bits of an IEEE double
MantissaBits == 53

\* Number(bigint): the nearest double, ties to even.  A 64-bit magnitude has
\* at most 11 bits too many, all of them in the lowest limb.
ToNumber(v) ==
    LET bits == IF v.mag[1] = 0 THEN 0 ELSE 48 + BitLen(v.mag[1])
        drop == bits - MantissaBits
    IN  IF drop <= 0 THEN v
        ELSE LET unit == Pow2(drop)
                 q == v.mag[4] \div unit
                 r == v.mag[4] % unit
                 up == 2 * r > unit \/ (2 * r = unit /\ q % 2 = 1)
                 low == (q + (IF up THEN 1 ELSE 0)) * unit
                 high == AddCarry(<<0, v.mag[1], v.mag[2], v.mag[3]>>, low = Limb)
             IN  [neg |-> v.neg, mag |-> <<high[2], high[3], high[4], low % Limb>>]

----------------------------------------------------------------------------
(* decodeTrack *)

\* a nullable string: string | null | undefined
Str(chars) == [kind |-> "string", chars |-> chars]
NullText == [kind |-> "null", chars |-> <<>>]
UndefinedText == [kind |-> "undefined", chars |-> <<>>]

\* '__seekable:1' and '__seekable:0'
SeekableSentinel(seekable) ==
    <<95, 95, 115, 101, 101, 107, 97, 98, 108, 101, 58, IF seekable THEN 49 ELSE 48>>

\* a read: whether ensure() passed, the position after it, the value read
ReadStart == [ok |-> TRUE, pos |-> 0, val |-> 0]
ReadFailed(prev) == [ok |-> FALSE, pos |-> prev.pos, val |-> 0]

\* read.byte()
ReadByte(buf, prev) ==
    IF ~prev.ok \/ prev.pos + 1 > Len(buf) THEN ReadFailed(prev)
    ELSE [ok |-> TRUE, pos |-> prev.pos + 1, val |-> buf[prev.pos + 1]]

\* read.int(): the four bytes of the big-endian int
ReadInt(buf, prev) ==
    IF ~prev.ok \/ prev.pos + 4 > Len(buf) THEN ReadFailed(prev)
    ELSE [ok |-> TRUE, pos |-> prev.pos + 4,
          val |-> SubSeq(buf, prev.pos + 1, prev.pos + 4)]

\* read.long()
ReadLong(buf, prev) ==
    IF ~prev.ok \/ prev.pos + 8 > Len(buf) THEN ReadFailed(prev)
    ELSE [ok |-> TRUE, pos |-> prev.pos + 8, val |-> ReadBigInt64(buf, prev.pos)]

\* read.utf()
ReadUtf(buf, prev) ==
    IF ~prev.ok \/ prev.pos + 2 > Len(buf) THEN ReadFailed(prev)
    ELSE LET length == buf[prev.pos + 1] * 256 + buf[prev.pos + 2]
             from == prev.pos + 2
         IN  IF from + length > Len(buf) THEN ReadFailed(prev)
             ELSE [ok |-> TRUE, pos |-> from + length,
                   val |-> Utf8Decode(SubSeq(buf, from + 1, from + length))]

\* variant: the field is read whatever the version
ReadNullableText_Ungated(buf, prev, gated) ==
    LET present == ReadByte(buf, prev) IN
    IF ~present.ok THEN ReadFailed(prev)
    ELSE IF present.val # 0
    THEN LET text == ReadUtf(buf, present)
         IN  IF text.ok THEN [text EXCEPT !.val = Str(text.val)]
             ELSE ReadFailed(prev)
    ELSE [present EXCEPT !.val = NullText]

\* version >= n ? readNullableText() : null
ReadNullableText(buf, prev, gated) ==
    IF ~gated THEN [prev EXCEPT !.val = NullText]
    ELSE LET present == ReadByte(buf, prev) IN
         IF ~present.ok THEN ReadFailed(prev)
         ELSE IF present.val # 0
         THEN LET text == ReadUtf(buf, present)
              IN  IF text.ok THEN [text EXCEPT !.val = Str(text.val)]
                  ELSE ReadFailed(prev)
         ELSE [present EXCEPT !.val = NullText]

RECURSIVE ParseDetails_KeepsPartial(_, _)
\* variant: a string whose body is cut short is pushed with the bytes there are
ParseDetails_KeepsPartial(detailsBuf, p) ==
    IF p >= Len(detailsBuf) THEN <<>>
    ELSE IF detailsBuf[p + 1] = 0
    THEN <<NullText>> \o ParseDetails_KeepsPartial(detailsBuf, p + 1)
    ELSE IF p + 3 > Len(detailsBuf) THEN <<>>
    ELSE LET len == detailsBuf[p + 2] * 256 + detailsBuf[p + 3] IN
         IF p + 3 + len > Len(detailsBuf)
         THEN <<Str(Utf8Decode(SubSeq(detailsBuf, p + 4, Len(detailsBuf))))>>
         ELSE <<Str(Utf8Decode(SubSeq(detailsBuf, p + 4, p + 3 + len)))>>
                  \o ParseDetails_KeepsPartial(detailsBuf, p + 3 + len)

RECURSIVE ParseDetails(_, _)
\* the first while loop over detailsBuf, from offset p
ParseDetails(detailsBuf, p) ==
    IF p >= Len(detailsBuf) THEN <<>>
    ELSE IF detailsBuf[p + 1] = 0
    THEN <<NullText>> \o ParseDetails(detailsBuf, p + 1)
    ELSE IF p + 3 > Len(detailsBuf) THEN <<>>
    ELSE LET len == detailsBuf[p + 2] * 256 + detailsBuf[p + 3] IN
         IF p + 3 + len > Len(detailsBuf) THEN <<>>
         ELSE <<Str(Utf8Decode(SubSeq(detailsBuf, p + 4, p + 3 + len)))>>
                  \o ParseDetails(detailsBuf, p + 3 + len)

RECURSIVE StripTrailingNulls(_)
\* while (details.length && details[details.length - 1] === null) details.pop()
StripTrailingNulls(details) ==
    IF details # <<>> /\ details[Len(details)] = NullText
    THEN StripTrailingNulls(SubSeq(details, 1, Len(details) - 1))
    ELSE details

\* variant: the sentinel is looked for before trailing nulls are stripped
ReadDetails_NoStrip(buf, position, positionOffset) ==
    IF ~(position < positionOffset)
    THEN [details |-> <<>>, seekable |-> "undefined"]
    ELSE LET end == IF positionOffset < Len(buf) THEN positionOffset ELSE Len(buf)
             parsed == ParseDetails(SubSeq(buf, position + 1, end), 0)
             lastEntry == parsed[Len(parsed)]
             front == SubSeq(parsed, 1, Len(parsed) - 1)
         IN  IF parsed # <<>> /\ lastEntry = Str(SeekableSentinel(FALSE))
             THEN [details |-> front, seekable |-> "false"]
             ELSE IF parsed # <<>> /\ lastEntry = Str(SeekableSentinel(TRUE))
             THEN [details |-> front, seekable |-> "true"]
             ELSE [details |-> StripTrailingNulls(parsed), seekable |-> "undefined"]

\* the details region: the entries kept, and the seekable override
\* ("true", "false" or "undefined")
ReadDetails(buf, position, positionOffset) ==
    IF ~(position < positionOffset)
    THEN [details |-> <<>>, seekable |-> "undefined"]
    ELSE LET end == IF positionOffset < Len(buf) THEN positionOffset ELSE Len(buf)
             parsed == StripTrailingNulls(ParseDetails(SubSeq(buf, position + 1, end), 0))
             lastEntry == parsed[Len(parsed)]
             front == SubSeq(parsed, 1, Len(parsed) - 1)
         IN  IF parsed # <<>> /\ lastEntry = Str(SeekableSentinel(FALSE))
             THEN [details |-> front, seekable |-> "false"]
             ELSE IF parsed # <<>> /\ lastEntry = Str(SeekableSentinel(TRUE))
             THEN [details |-> front, seekable |-> "true"]
             ELSE [details |-> parsed, seekable |-> "undefined"]

JsBoolean(b) == IF b THEN "true" ELSE "false"

NoInfo == [title |-> <<>>]
DecodeError == [threw |-> TRUE, info |-> NoInfo, details |-> <<>>]

\* decodeTrack(encoded)
DecodeTrack(encoded) ==
    IF encoded = <<>> THEN DecodeError
    ELSE
    LET buffer == Base64Decode(encoded)
        firstInt == ReadInt(buffer, ReadStart)
        isVersioned == firstInt.ok /\ (firstInt.val[1] \div 64) % 2 = 1
        messageSize == ((firstInt.val[1] % 64) * 16777216) + (firstInt.val[2] * 65536)
                           + (firstInt.val[3] * 256) + firstInt.val[4]
        version == IF isVersioned THEN ReadByte(buffer, firstInt)
                   ELSE [firstInt EXCEPT !.val = 1]
        title == ReadUtf(buffer, version)
        author == ReadUtf(buffer, title)
        length == ReadLong(buffer, author)
        identifier == ReadUtf(buffer, length)
        isStream == ReadByte(buffer, identifier)
        uri == ReadNullableText(buffer, isStream, version.val >= 2)
        artworkUrl == ReadNullableText(buffer, uri, version.val >= 3)
        isrc == ReadNullableText(buffer, artworkUrl, version.val >= 3)
        sourceName == ReadUtf(buffer, isrc)
    IN
    IF ~sourceName.ok THEN DecodeError
    ELSE
    LET positionOffset == 4 + messageSize - 8
        d == ReadDetails(buffer, sourceName.pos, positionOffset)
        trackPosition == IF positionOffset < 0 THEN ReadFailed(ReadStart)
                         ELSE ReadLong(buffer, [ReadStart EXCEPT !.pos = positionOffset])
    IN
    IF ~trackPosition.ok THEN DecodeError
    ELSE [threw |-> FALSE,
          info |-> [title |-> title.val,
                    author |-> author.val,
                    length |-> ToNumber(length.val),
                    identifier |-> identifier.val,
                    isSeekable |-> IF d.seekable = "undefined"
                                   THEN JsBoolean(isStream.val = 0)
                                   ELSE d.seekable,
                    isStream |-> isStream.val # 0,
                    uri |-> uri.val,
                    artworkUrl |-> artworkUrl.val,
                    isrc |-> isrc.val,
                    sourceName |-> sourceName.val,
                    position |-> ToNumber(trackPosition.val)],
          details |-> d.details]

----------------------------------------------------------------------------
(* encodeTrack *)

\* the largest string a 16-bit length prefix can describe
MaxUtfBytes == 65535

\* a write: whether it succeeded, and the bytes pushed on bodyParts
Written(bytes) == [ok |-> TRUE, bytes |-> bytes]
WriteFailed == [ok |-> FALSE, bytes |-> <<>>]

\* variant: no length check, the prefix keeps the low 16 bits of the length
WriteLengthPrefixed_Unchecked(strBuf) ==
    Written(<<(Len(strBuf) \div 256) % 256, Len(strBuf) % 256>> \o strBuf)

\* writeUTF from the length check on: the check, the 16-bit length and strBuf
WriteLengthPrefixed(strBuf) ==
    IF Len(strBuf) > MaxUtfBytes THEN WriteFailed
    ELSE Written(<<Len(strBuf) \div 256, Len(strBuf) % 256>> \o strBuf)

\* writeUTF(value)
WriteUTF(chars) == WriteLengthPrefixed(Utf8Encode(chars))

\* writeByte(1), then writeUTF(value) with the result utf
WritePresent(utf) == IF utf.ok THEN Written(<<1>> \o utf.bytes) ELSE WriteFailed

\* writeNullableText(value): undefined, null and '' are written as absent
WriteNullableText(text) ==
    IF text.kind # "string" \/ text.chars = <<>> THEN Written(<<0>>)
    ELSE WritePresent(WriteUTF(text.chars))

\* writeByte(value)
WriteByte(value) == Written(<<value % 256>>)

\* writeLong(value): BigInt(value || 0), then writeBigInt64BE, which throws
\* a RangeError outside -2^63 .. 2^63 - 1
WriteLong(value) ==
    IF InInt64(value) THEN Written(Int64Bytes(value)) ELSE WriteFailed

\* two writes one after the other
WriteBoth(one, rest) ==
    IF one.ok /\ rest.ok THEN Written(one.bytes \o rest.bytes) ELSE WriteFailed

RECURSIVE WriteAll(_, _)
\* for (const v of detailsOut) writeNullableText(v), from position i
WriteAll(detailsOut, i) ==
    IF i > Len(detailsOut) THEN Written(<<>>)
    ELSE WriteBoth(WriteNullableText(detailsOut[i]), WriteAll(detailsOut, i + 1))

RECURSIVE Concat(_, _)
\* Buffer.concat(bodyParts) from part i
Concat(parts, i) ==
    IF i > Len(parts) THEN <<>> ELSE parts[i].bytes \o Concat(parts, i + 1)

\* header.writeInt32BE((1 << 30) | messageSize)
Header(messageSize) ==
    <<64 + (messageSize \div 16777216), (messageSize \div 65536) % 256,
      (messageSize \div 256) % 256, messageSize % 256>>

\* the format version encodeTrack writes
EncodeVersion == 3

\* typeof track.isSeekable === 'boolean' ? track.isSeekable : !track.isStream
EffectiveSeekable(track) ==
    IF track.isSeekable \in {"true", "false"}
    THEN track.isSeekable = "true"
    ELSE ~track.isStream

\* variant: the sentinel is pushed whether or not seekable is the default
DetailsOut_AlwaysSentinel(track) ==
    track.details \o <<Str(SeekableSentinel(EffectiveSeekable(track)))>>

\* detailsOut: a copy of track.details, and the sentinel pushed on it when
\* seekable is not !track.isStream
DetailsOut(track) ==
    LET seekable == EffectiveSeekable(track)
    IN  track.details
            \o (IF seekable # ~track.isStream
                THEN <<Str(SeekableSentinel(seekable))>>
                ELSE <<>>)

\* header and messageBody as base64
EncodeBody(messageBody) == Base64Encode(Header(Len(messageBody)) \o messageBody)

\* the result of encodeTrack, given what its writes did
EncodeParts(bodyParts) ==
    IF \E i \in 1..Len(bodyParts) : ~bodyParts[i].ok
    THEN [threw |-> TRUE, encoded |-> <<>>]
    ELSE [threw |-> FALSE, encoded |-> EncodeBody(Concat(bodyParts, 1))]

\* encodeTrack(track); track.details is the details array, <<>> when the
\* track has none
EncodeTrack(track) ==
    EncodeParts(<<WriteByte(EncodeVersion),
                  WriteUTF(track.title),
                  WriteUTF(track.author),
                  WriteLong(track.length),
                  WriteUTF(track.identifier),
                  WriteByte(IF track.isStream THEN 1 ELSE 0),
                  WriteNullableText(track.uri),
                  WriteNullableText(track.artworkUrl),
                  WriteNullableText(track.isrc),
                  WriteUTF(track.sourceName),
                  WriteAll(DetailsOut(track), 1),
                  WriteLong(track.position)>>)

\* the TrackInfo of a decoded track as the argument of encodeTrack
AsTrack(info) ==
    [title |-> info.title, author |-> info.author, length |-> info.length,
     identifier |-> info.identifier, isSeekable |-> info.isSeekable,
     isStream |-> info.isStream, uri |-> info.uri, artworkUrl |-> info.artworkUrl,
     isrc |-> info.isrc, sourceName |-> info.sourceName, position |-> info.position,
     details |-> <<>>]

----------------------------------------------------------------------------
(* The calls on the codec *)

\* 2^53 and 110000, as lengths in milliseconds
Lengths == {Zero, Integer(FALSE, 0, 0, 1, 44464), Integer(FALSE, 32, 0, 0, 0)}
Positions == {Zero, Integer(FALSE, 0, 0, 0, 5000)}

\* the TrackInfo values handed to encodeTrack: uri, artworkUrl and isrc
\* absent, null, empty or not empty; every isStream and isSeekable
TrackInfos ==
    {[title |-> title, author |-> <<97>>, length |-> length,
      identifier |-> <<105, 100>>, isSeekable |-> isSeekable, isStream |-> isStream,
      uri |-> uri, artworkUrl |-> artworkUrl, isrc |-> isrc,
      sourceName |-> <<115, 99>>, position |-> position, details |-> <<>>] :
        title \in {<<>>, <<116, 233>>},
        length \in Lengths,
        isSeekable \in {"true", "false"},
        isStream \in BOOLEAN,
        uri \in {UndefinedText, NullText, Str(<<>>), Str(<<117>>)},
        artworkUrl \in {NullText, Str(<<>>), Str(<<233>>)},
        isrc \in {UndefinedText, Str(<<>>), Str(<<105>>)},
        position \in Positions}

\* the 64-bit fields of a payload: 0, 2^53 + 1, 2^63 - 1 and -1
WireLongs ==
    {Zero, Integer(FALSE, 32, 0, 0, 1), Integer(FALSE, 32767, 65535, 65535, 65535),
     Integer(TRUE, 0, 0, 0, 1)}

\* the details regions of a payload: none, an empty-but-present entry, a
\* sentinel, a null entry before a sentinel
WireDetails ==
    {<<>>, <<Str(<<>>)>>, <<Str(SeekableSentinel(FALSE))>>,
     <<NullText, Str(SeekableSentinel(TRUE))>>}

\* a length-prefixed string and a nullable string as they stand in a payload
RawUtf(bytes) == <<Len(bytes) \div 256, Len(bytes) % 256>> \o bytes
RawNullable(text) ==
    IF text.kind = "string" THEN <<1>> \o RawUtf(text.chars) ELSE <<0>>

RECURSIVE RawDetails(_, _)
RawDetails(details, i) ==
    IF i > Len(details) THEN <<>>
    ELSE RawNullable(details[i]) \o RawDetails(details, i + 1)

\* the parameters of a payload: the fields in the layout decodeTrack reads,
\* the number of bytes of the details region that are kept (cut, -1 for all
\* of them), the body size the header declares (declared, -1 for the size
\* the body has) and whether the input is the empty string
BaseWire ==
    [versioned |-> TRUE, version |-> 3, title |-> <<116>>, length |-> Zero,
     isStream |-> 0, uri |-> NullText, artworkUrl |-> NullText, isrc |-> NullText,
     details |-> <<>>, position |-> Zero, cut |-> -1, declared |-> -1,
     empty |-> FALSE]

\* the bytes of the details region of a payload
WireRegion(p) ==
    LET region == RawDetails(p.details, 1)
    IN  IF p.cut < 0 THEN region ELSE SubSeq(region, 1, p.cut)

\* the bytes of a payload before its details region, header included
WireFixed(p) ==
    (IF p.versioned THEN <<p.version>> ELSE <<>>)
        \o RawUtf(p.title) \o RawUtf(<<97>>) \o Int64Bytes(p.length)
        \o RawUtf(<<105, 100>>) \o <<p.isStream>>
        \o (IF p.version >= 2 THEN RawNullable(p.uri) ELSE <<>>)
        \o (IF p.version >= 3
            THEN RawNullable(p.artworkUrl) \o RawNullable(p.isrc)
            ELSE <<>>)
        \o RawUtf(<<115, 99>>)

\* a payload in the layout decodeTrack reads: with or without the versioned
\* flag and the version byte, the nullable fields its version has
Payload(p) ==
    IF p.empty THEN <<>>
    ELSE
    LET body == WireFixed(p) \o WireRegion(p) \o Int64Bytes(p.position)
        flag == IF p.versioned THEN 64 ELSE 0
        size == IF p.declared < 0 THEN Len(body) ELSE p.declared
    IN  Base64Encode(<<flag, 0, size \div 256, size % 256>> \o body)

\* legacy and versions 1 to 3, a title that is UTF-8 or not, nullable
\* strings absent, empty or not empty
WireParams ==
    {[BaseWire EXCEPT !.versioned = v[1], !.version = v[2], !.title = title,
                      !.length = length, !.isStream = isStream, !.uri = uri,
                      !.artworkUrl = artworkUrl, !.isrc = isrc,
                      !.details = details] :
        v \in {<<FALSE, 1>>, <<TRUE, 1>>, <<TRUE, 2>>, <<TRUE, 3>>},
        title \in {<<116>>, <<128>>},
        length \in WireLongs,
        isStream \in {0, 1},
        uri \in {NullText, Str(<<>>), Str(<<117>>)},
        artworkUrl \in {NullText, Str(<<>>)},
        isrc \in {NullText, Str(<<105>>)},
        details \in WireDetails}

\* the payloads handed to decodeTrack
Payloads == {Payload(p) : p \in WireParams}

\* details regions with a sentinel literal last, before a trailing null, not
\* last, twice, and with none
SentinelDetails ==
    {<<Str(<<100>>), Str(SeekableSentinel(TRUE))>>,
     <<Str(SeekableSentinel(FALSE)), NullText, NullText>>,
     <<Str(SeekableSentinel(FALSE)), Str(<<100>>)>>,
     <<Str(SeekableSentinel(TRUE)), NullText, Str(<<>>)>>,
     <<Str(SeekableSentinel(TRUE)), Str(SeekableSentinel(FALSE))>>,
     <<Str(SeekableSentinel(FALSE)), Str(SeekableSentinel(FALSE))>>,
     <<NullText, Str(<<100>>), NullText>>,
     <<NullText, NullText>>}

SentinelParams ==
    {[BaseWire EXCEPT !.versioned = v[1], !.version = v[2], !.isStream = isStream,
                      !.details = details] :
        v \in {<<FALSE, 1>>, <<TRUE, 3>>},
        isStream \in {0, 1},
        details \in SentinelDetails}

\* details regions to cut short
CutDetails ==
    {<<Str(<<100, 101>>), NullText, Str(SeekableSentinel(FALSE))>>,
     <<NullText, Str(<<120>>), Str(<<>>)>>}

\* payloads whose details region is cut after any number of its bytes, with
\* the header declaring the size the body then has
TruncatedParams ==
    {[BaseWire EXCEPT !.isStream = c[1], !.details = c[2], !.cut = c[3],
                      !.position = Integer(FALSE, 0, 0, 0, 5000)] :
        c \in UNION {{<<isStream, details, cut>> :
                          cut \in 0..Len(RawDetails(details, 1))} :
                      isStream \in {0, 1}, details \in CutDetails}}

\* payloads whose header declares a body size that is not the size of the
\* body: smaller than the fixed fields, smaller than the body, larger
MisdeclaredParams ==
    {[BaseWire EXCEPT !.versioned = v[1], !.version = v[2], !.details = details,
                      !.declared = declared,
                      !.position = Integer(FALSE, 0, 0, 0, 5000)] :
        v \in {<<FALSE, 1>>, <<TRUE, 3>>},
        details \in {<<>>, <<Str(<<100>>)>>},
        declared \in {0, 3, 4, 8, 20, 30, 60, 1000}}

\* payloads whose version byte is 0 or 4
GatingParams ==
    {[BaseWire EXCEPT !.version = version, !.isStream = isStream, !.uri = uri,
                      !.artworkUrl = artworkUrl, !.isrc = isrc] :
        version \in {0, 4},
        isStream \in {0, 1},
        uri \in {NullText, Str(<<>>), Str(<<117>>)},
        artworkUrl \in {NullText, Str(<<119>>)},
        isrc \in {NullText, Str(<<105>>)}}

\* decodeTrack('')
EmptyParams == {[BaseWire EXCEPT !.empty = TRUE]}

AllWireParams ==
    WireParams \cup SentinelParams \cup TruncatedParams \cup MisdeclaredParams
        \cup GatingParams \cup EmptyParams

\* the details arrays handed to encodeTrack: non-empty, empty and null
\* entries, a sentinel literal of the caller's
TrackDetails ==
    {<<>>,
     <<Str(<<100>>)>>,
     <<Str(<<100>>), NullText, Str(<<101, 102>>)>>,
     <<NullText>>,
     <<Str(<<>>)>>,
     <<Str(<<100>>), NullText>>,
     <<Str(SeekableSentinel(TRUE))>>,
     <<Str(SeekableSentinel(FALSE)), Str(<<100>>)>>}

\* tracks with a details array, and with isSeekable a boolean or not
DetailedTracks ==
    {[title |-> <<116>>, author |-> <<97>>, length |-> Zero,
      identifier |-> <<105, 100>>, isSeekable |-> isSeekable, isStream |-> isStream,
      uri |-> NullText, artworkUrl |-> NullText, isrc |-> NullText,
      sourceName |-> <<115, 99>>, position |-> Integer(FALSE, 0, 0, 0, 5000),
      details |-> details] :
        isSeekable \in {"true", "false", "undefined"},
        isStream \in BOOLEAN,
        details \in TrackDetails}

CodecCall(op) ==
    [op |-> op, track |-> NoInfo, wire |-> BaseWire, encoded |-> <<>>,
     threw |-> FALSE,
     decoded |-> DecodeError, reencoded |-> [threw |-> TRUE, encoded |-> <<>>],
     redecoded |-> DecodeError]

\* the codec is a pair of pure functions: a behaviour of SpecCodec starts
\* with one input, a TrackInfo or a payload, and applies them to it
InitCodec ==
    /\ sessions = <<>>
    /\ connections = {}
    /\ sockets = <<>>
    /\ uuidCount = 0
    /\ now = 0
    /\ last = NoEvent
    /\ managers = <<>>
    /\ registerLog = <<>>
    /\ reg = NoCall
    /\ NoCredentialManager
    /\ codec \in {[CodecCall("track") EXCEPT !.track = t] :
                       t \in TrackInfos \cup DetailedTracks}
                   \cup {[CodecCall("payload") EXCEPT !.wire = p,
                                                      !.encoded = Payload(p)] :
                           p \in AllWireParams}

\* the record of a call of encodeTrack that had the result e
Encoded(call, op, e) ==
    [call EXCEPT !.op = op, !.threw = e.threw, !.encoded = e.encoded]

\* encodeTrack(t)
encodeTrack ==
    /\ codec.op = "track"
    /\ codec' = Encoded(codec, "encodeTrack", EncodeTrack(codec.track))

\* decodeTrack(encodeTrack(t))
decodeEncoded ==
    /\ codec.op = "encodeTrack"
    /\ ~codec.threw
    /\ codec' = [codec EXCEPT !.op = "decodeEncoded",
                               !.decoded = DecodeTrack(codec.encoded)]

\* x = decodeTrack(e)
decodeTrack ==
    /\ codec.op = "payload"
    /\ LET x == DecodeTrack(codec.encoded) IN
       codec' = [codec EXCEPT !.op = "decodeTrack", !.threw = x.threw, !.decoded = x]

\* encodeTrack(x.info)
encodeDecoded ==
    /\ codec.op = "decodeTrack"
    /\ ~codec.threw
    /\ codec' = [codec EXCEPT !.op = "encodeDecoded",
                               !.reencoded = EncodeTrack(AsTrack(codec.decoded.info))]

\* decodeTrack(encodeTrack(x.info))
decodeReencoded ==
    /\ codec.op = "encodeDecoded"
    /\ ~codec.reencoded.threw
    /\ codec' = [codec EXCEPT !.op = "decodeReencoded",
                               !.redecoded = DecodeTrack(codec.reencoded.encoded)]

NextCodec ==
    \/ encodeTrack /\ UNCHANGED <<gatewayVars, registryVars, credentialVars>>
    \/ decodeEncoded /\ UNCHANGED <<gatewayVars, registryVars, credentialVars>>
    \/ decodeTrack /\ UNCHANGED <<gatewayVars, registryVars, credentialVars>>
    \/ encodeDecoded /\ UNCHANGED <<gatewayVars, registryVars, credentialVars>>
    \/ decodeReencoded /\ UNCHANGED <<gatewayVars, registryVars, credentialVars>>

SpecCodec == InitCodec /\ [][NextCodec]_vars

\* n times the character cp, as a sequence
Repeat(n, cp) == <<>> \o [i \in 1..n |-> cp]

\* strings at the limit of the 16-bit length prefix: 65535 and 65536 bytes in
\* characters of one, three and two bytes, and 65535 characters of two bytes
LimitStrings ==
    {Repeat(MaxUtfBytes, 97),
     Repeat(MaxUtfBytes + 1, 97),
     Repeat(MaxUtfBytes \div 3, 8364),
     Repeat(MaxUtfBytes \div 3, 8364) \o <<97>>,
     Repeat(MaxUtfBytes \div 2, 233) \o <<97>>,
     Repeat((MaxUtfBytes + 1) \div 2, 233),
     Repeat(MaxUtfBytes, 233)}

\* the strings encodeTrack writes
StringFields ==
    {"title", "author", "identifier", "uri", "artworkUrl", "isrc", "sourceName",
     "details"}

ShortTrack ==
    [title |-> <<116>>, author |-> <<97>>, length |-> Zero,
     identifier |-> <<105, 100>>, isSeekable |-> "true", isStream |-> FALSE,
     uri |-> Str(<<117>>), artworkUrl |-> NullText, isrc |-> NullText,
     sourceName |-> <<115, 99>>, position |-> Zero, details |-> <<>>]

\* the track with one of its strings replaced
WithString(field, chars) ==
    CASE field = "title" -> [ShortTrack EXCEPT !.title = chars]
      [] field = "author" -> [ShortTrack EXCEPT !.author = chars]
      [] field = "identifier" -> [ShortTrack EXCEPT !.identifier = chars]
      [] field = "uri" -> [ShortTrack EXCEPT !.uri = Str(chars)]
      [] field = "artworkUrl" -> [ShortTrack EXCEPT !.artworkUrl = Str(chars)]
      [] field = "isrc" -> [ShortTrack EXCEPT !.isrc = Str(chars)]
      [] field = "sourceName" -> [ShortTrack EXCEPT !.sourceName = chars]
      [] OTHER -> [ShortTrack EXCEPT !.details = <<Str(<<100>>), Str(chars)>>]

LimitTracks == {WithString(field, chars) : field \in StringFields, chars \in LimitStrings}

\* a behaviour of SpecCodecLimits starts with a track one of whose strings
\* is at the limit, and encodes it
InitCodecLimits ==
    /\ sessions = <<>>
    /\ connections = {}
    /\ sockets = <<>>
    /\ uuidCount = 0
    /\ now = 0
    /\ last = NoEvent
    /\ managers = <<>>
    /\ registerLog = <<>>
    /\ reg = NoCall
    /\ NoCredentialManager
    /\ codec \in {[CodecCall("limit") EXCEPT !.track = t] : t \in LimitTracks}

\* encodeTrack(t), t with a string at the limit
encodeLimitTrack ==
    /\ codec.op = "limit"
    /\ codec' = Encoded(codec, "encodeLimitTrack", EncodeTrack(codec.track))

NextCodecLimits == encodeLimitTrack /\ UNCHANGED <<gatewayVars, registryVars, credentialVars>>

SpecCodecLimits == InitCodecLimits /\ [][NextCodecLimits]_vars

----------------------------------------------------------------------------
(* Properties of the codec *)

\* a nullable field is the same when both are strings with the same
\* characters or both are absent (null or undefined)
SameText(a, b) ==
    IF a.kind = "string" /\ b.kind = "string" THEN a.chars = b.chars
    ELSE a.kind # "string" /\ b.kind # "string"

\* the TrackInfo fields of a and b, field for field
SameInfo(a, b) ==
    /\ a.title = b.title
    /\ a.author = b.author
    /\ a.length = b.length
    /\ a.identifier = b.identifier
    /\ a.isSeekable = b.isSeekable
    /\ a.isStream = b.isStream
    /\ SameText(a.uri, b.uri)
    /\ SameText(a.artworkUrl, b.artworkUrl)
    /\ SameText(a.isrc, b.isrc)
    /\ a.sourceName = b.sourceName
    /\ a.position = b.position

\* a TrackInfo: isSeekable is a boolean, and there is no details array
ValidTrackInfo(t) == t.isSeekable \in {"true", "false"} /\ t.details = <<>>

EmptyText(text) == text = Str(<<>>)
HasEmptyText(info) ==
    EmptyText(info.uri) \/ EmptyText(info.artworkUrl) \/ EmptyText(info.isrc)

\* C19: for every valid TrackInfo t, with uri, artworkUrl and isrc each
\* absent, null, empty or not empty and any isStream and isSeekable,
\* encodeTrack(t) succeeds and decodeTrack(encodeTrack(t)).info equals t
\* field for field.
C19_RoundTrip ==
    /\ (codec.op = "encodeTrack" /\ ValidTrackInfo(codec.track)) => ~codec.threw
    /\ (codec.op = "decodeEncoded" /\ ValidTrackInfo(codec.track))
          => ~codec.decoded.threw /\ SameInfo(codec.decoded.info, codec.track)

\* the round trip of a TrackInfo without an empty uri, artworkUrl or isrc
\* gives the TrackInfo back, isSeekable included
RoundTripWithoutEmptyText ==
    (codec.op = "decodeEncoded" /\ ValidTrackInfo(codec.track)
         /\ ~HasEmptyText(codec.track))
        => ~codec.decoded.threw /\ SameInfo(codec.decoded.info, codec.track)

\* an empty uri, artworkUrl or isrc comes back as null
RoundTripEmptyTextIsNull ==
    codec.op = "decodeEncoded"
        => /\ EmptyText(codec.track.uri) => codec.decoded.info.uri = NullText
           /\ EmptyText(codec.track.artworkUrl) => codec.decoded.info.artworkUrl = NullText
           /\ EmptyText(codec.track.isrc) => codec.decoded.info.isrc = NullText

\* C20: for every payload e that decodeTrack accepts, of any version,
\* versioned or legacy, with nullable strings that may be present and empty,
\* and x = decodeTrack(e): encodeTrack of x succeeds and
\* decodeTrack(encodeTrack(x)).info equals x.info field for field.
C20_ReencodeLossless ==
    /\ codec.op = "encodeDecoded" => ~codec.reencoded.threw
    /\ codec.op = "decodeReencoded"
          => /\ ~codec.redecoded.threw
             /\ SameInfo(codec.redecoded.info, codec.decoded.info)

\* re-encoding is lossless for the payloads without a present-but-empty
\* nullable string whose length and position encodeTrack can write
ReencodeWithoutEmptyText ==
    (codec.op = "decodeReencoded" /\ ~HasEmptyText(codec.decoded.info))
        => ~codec.redecoded.threw /\ SameInfo(codec.redecoded.info, codec.decoded.info)

\* encodeTrack rejects a decoded track exactly when its length, as a
\* number, is 2^63
ReencodeThrowsOnMaxLength ==
    codec.op = "encodeDecoded"
        => (codec.reencoded.threw
              <=> codec.decoded.info.length = Integer(FALSE, 32768, 0, 0, 0))

\* the entries that stand in the details region of a version 3 payload,
\* before trailing nulls are stripped and a sentinel is taken off
WrittenDetails(encoded) ==
    LET buffer == Base64Decode(encoded)
        version == ReadByte(buffer, [ReadStart EXCEPT !.pos = 4])
        title == ReadUtf(buffer, version)
        author == ReadUtf(buffer, title)
        length == ReadLong(buffer, author)
        identifier == ReadUtf(buffer, length)
        isStream == ReadByte(buffer, identifier)
        uri == ReadNullableText(buffer, isStream, TRUE)
        artworkUrl == ReadNullableText(buffer, uri, TRUE)
        isrc == ReadNullableText(buffer, artworkUrl, TRUE)
        sourceName == ReadUtf(buffer, isrc)
    IN  ParseDetails(SubSeq(buffer, sourceName.pos + 1, Len(buffer) - 8), 0)

\* a details entry as writeNullableText leaves it: null, undefined and ''
\* are one absent entry
AsWritten(text) ==
    IF text.kind = "string" /\ text.chars # <<>> THEN text ELSE NullText

\* C21: encodeTrack writes the caller's details in order, followed by exactly
\* one sentinel entry, "__seekable:1" or "__seekable:0" after the effective
\* isSeekable, if and only if the effective isSeekable (track.isSeekable when
\* a boolean, else !isStream) differs from !isStream; otherwise it writes the
\* caller's details and nothing after them.
C21_SentinelIffNotDefault ==
    (codec.op = "encodeTrack" /\ ~codec.threw)
        => LET t == codec.track
               n == Len(t.details)
               effective == IF t.isSeekable = "true" THEN TRUE
                            ELSE IF t.isSeekable = "false" THEN FALSE
                            ELSE ~t.isStream
               written == WrittenDetails(codec.encoded)
           IN  /\ Len(written) = n + (IF effective = t.isStream THEN 1 ELSE 0)
               /\ \A i \in 1..n : written[i] = AsWritten(t.details[i])
               /\ effective = t.isStream
                     => written[n + 1] = Str(SeekableSentinel(effective))

\* a track with two details entries or more whose isSeekable is not the
\* default was encoded
C21_Witness ==
    /\ codec.op = "encodeTrack"
    /\ Len(codec.track.details) >= 2
    /\ codec.track.isSeekable = JsBoolean(codec.track.isStream)

\* a track with details whose isSeekable is no boolean was encoded
C21_WitnessDefault ==
    /\ codec.op = "encodeTrack"
    /\ codec.track.details # <<>>
    /\ codec.track.isSeekable = "undefined"

\* a payload as its parameters describe it: whole, of the declared size
WholePayload(e) ==
    /\ e.op = "decodeTrack"
    /\ ~e.wire.empty
    /\ e.wire.cut = -1
    /\ e.wire.declared = -1

\* the position of the last entry of details that is not null, 0 if none
LastNonNull(details) ==
    LET kept == {i \in 1..Len(details) : details[i] # NullText}
    IN  IF kept = {} THEN 0 ELSE CHOOSE i \in kept : \A j \in kept : j <= i

IsSentinel(text) ==
    text = Str(SeekableSentinel(FALSE)) \/ text = Str(SeekableSentinel(TRUE))

\* C22: when, after the trailing null entries are stripped, the last detail
\* entry is "__seekable:0" or "__seekable:1", decodeTrack's isSeekable is
\* false or true after it and the entry is removed from the details; in every
\* other case isSeekable is !isStream and the details are returned whole.  A
\* sentinel literal that is not last has no effect.
C22_SentinelOverride ==
    WholePayload(codec)
        => LET p == codec.wire
               k == LastNonNull(p.details)
               x == codec.decoded
           IN  /\ ~codec.threw
               /\ (k > 0 /\ IsSentinel(p.details[k]))
                     => /\ x.info.isSeekable
                             = JsBoolean(p.details[k] = Str(SeekableSentinel(TRUE)))
                        /\ x.details = SubSeq(p.details, 1, k - 1)
               /\ ~(k > 0 /\ IsSentinel(p.details[k]))
                     => /\ x.info.isSeekable = JsBoolean(p.isStream = 0)
                        /\ x.details = SubSeq(p.details, 1, k)

\* a sentinel followed by null entries only overrode isSeekable
C22_Witness ==
    /\ WholePayload(codec)
    /\ LastNonNull(codec.wire.details) < Len(codec.wire.details)
    /\ IsSentinel(codec.wire.details[1])
    /\ codec.decoded.info.isSeekable = JsBoolean(codec.wire.isStream # 0)

\* a sentinel that is not the last entry had no effect
C22_WitnessNotLast ==
    /\ WholePayload(codec)
    /\ Len(codec.decoded.details) = 2
    /\ codec.decoded.details[1] = Str(SeekableSentinel(FALSE))
    /\ codec.decoded.info.isSeekable = "true"

\* a payload whose details region was cut short
CutPayload(e) ==
    /\ e.op = "decodeTrack"
    /\ e.wire.cut >= 0

\* the number of entries of the details region that end before the cut
CompleteEntries(p) ==
    LET whole == {m \in 0..Len(p.details) :
                     Len(RawDetails(SubSeq(p.details, 1, m), 1)) <= p.cut}
    IN  CHOOSE m \in whole : \A n \in whole : n <= m

\* C23: cutting the details region of a payload short at any byte offset,
\* header, fixed fields and final 8 bytes intact, never makes decodeTrack
\* throw; the details returned are those of the entries that end before the
\* cut, and the position is the 8-byte value at the declared end minus 8.
C23_TruncationSafe ==
    CutPayload(codec)
        => LET p == codec.wire
               before == SubSeq(p.details, 1, CompleteEntries(p))
               k == LastNonNull(before)
               x == codec.decoded
           IN  /\ ~codec.threw
               /\ x.info.position = p.position
               /\ x.details = IF k > 0 /\ IsSentinel(before[k])
                               THEN SubSeq(before, 1, k - 1)
                               ELSE SubSeq(before, 1, k)
               /\ x.info.sourceName = <<115, 99>>

\* the cut fell inside an entry, after an entry that is returned
C23_Witness ==
    /\ CutPayload(codec)
    /\ Len(RawDetails(SubSeq(codec.wire.details, 1, CompleteEntries(codec.wire)), 1))
           < codec.wire.cut
    /\ codec.wire.cut < Len(RawDetails(codec.wire.details, 1))
    /\ codec.decoded.details # <<>>
    /\ codec.decoded.info.position = Integer(FALSE, 0, 0, 0, 5000)

\* C24: the version is the version byte when bit 30 of the header is set and
\* 1 otherwise; uri is read only when version >= 2, artworkUrl and isrc only
\* when version >= 3, and otherwise they are null and no byte is consumed
\* for them (the fields after them are read where they stand); a payload
\* without the flag decodes with uri, artworkUrl and isrc null and, its
\* details holding no override, isSeekable = !isStream.
C24_VersionGating ==
    WholePayload(codec)
        => LET p == codec.wire
               version == IF p.versioned THEN p.version ELSE 1
               k == LastNonNull(p.details)
               x == codec.decoded
           IN  /\ ~codec.threw
               /\ x.info.uri = IF version >= 2 THEN p.uri ELSE NullText
               /\ x.info.artworkUrl = IF version >= 3 THEN p.artworkUrl ELSE NullText
               /\ x.info.isrc = IF version >= 3 THEN p.isrc ELSE NullText
               /\ x.info.isStream = (p.isStream # 0)
               /\ x.info.identifier = <<105, 100>>
               /\ x.info.sourceName = <<115, 99>>
               /\ x.info.position = p.position
               /\ (~p.versioned /\ ~(k > 0 /\ IsSentinel(p.details[k])))
                     => /\ x.info.uri = NullText
                        /\ x.info.artworkUrl = NullText
                        /\ x.info.isrc = NullText
                        /\ x.info.isSeekable = JsBoolean(p.isStream = 0)

\* a payload without the versioned flag was decoded
C24_Witness ==
    /\ WholePayload(codec)
    /\ ~codec.wire.versioned
    /\ codec.wire.isStream = 1
    /\ codec.decoded.info.isSeekable = "false"

\* a version 2 payload with a uri was decoded
C24_WitnessUri ==
    /\ WholePayload(codec)
    /\ codec.wire.versioned
    /\ codec.wire.version = 2
    /\ codec.decoded.info.uri = Str(<<117>>)

\* a payload with version byte 0 was decoded
C24_WitnessZero ==
    /\ WholePayload(codec)
    /\ codec.wire.version = 0
    /\ codec.wire.uri # NullText
    /\ codec.decoded.info.uri = NullText

\* a decodeTrack call on a payload whose header declares a size of its own
Misdeclared(e) == e.op = "decodeTrack" /\ ~e.wire.empty /\ e.wire.declared >= 0

\* the size of the body the buffer holds after the 4-byte header
BodySize(p) == Len(WireFixed(p)) + Len(WireRegion(p)) + 8

\* C25: decodeTrack fails on empty input, and a payload whose fixed fields
\* extend past offset 4 + declared size makes it fail instead of returning a
\* record, also when the buffer holds more bytes than the header declares.
C25_ReadsBoundedByDeclaredSize ==
    /\ (codec.op = "decodeTrack" /\ codec.wire.empty) => codec.threw
    /\ (Misdeclared(codec) /\ Len(WireFixed(codec.wire)) > codec.wire.declared)
          => codec.threw

\* decodeTrack fails on empty input
EmptyInputFails ==
    (codec.op = "decodeTrack" /\ codec.wire.empty) => codec.threw

\* the reads are bounded by the length of the buffer: a declared size larger
\* than the body, or smaller than the 4 bytes of the position's offset, fails
ReadsBoundedByBuffer ==
    (Misdeclared(codec)
       /\ (codec.wire.declared > BodySize(codec.wire) \/ codec.wire.declared < 4))
        => codec.threw

\* a declared size from 4 up to the body's size returns a record, its position
\* the 8 bytes that end at the declared end
DeclaredSizeOnlyPlacesPosition ==
    (Misdeclared(codec)
       /\ codec.wire.declared >= 4 /\ codec.wire.declared <= BodySize(codec.wire))
        => LET p == codec.wire
               buffer == Base64Decode(codec.encoded)
           IN  /\ ~codec.threw
               /\ codec.decoded.info.sourceName = <<115, 99>>
               /\ codec.decoded.info.position
                     = ToNumber(ReadBigInt64(buffer, p.declared - 4))

\* a record was returned for a payload whose fixed fields pass the declared end
FixedFieldsPastDeclaredEnd ==
    /\ Misdeclared(codec)
    /\ Len(WireFixed(codec.wire)) > codec.wire.declared
    /\ ~codec.threw

\* byte j (from 0) of the buffer a base64 string holds
Base64ByteAt(chars, j) ==
    LET k == 4 * (j \div 3)
    IN  CASE j % 3 = 0 -> (chars[k + 1] * 4) + (chars[k + 2] \div 16)
          [] j % 3 = 1 -> ((chars[k + 2] % 16) * 16) + (chars[k + 3] \div 4)
          [] OTHER -> ((chars[k + 3] % 4) * 64) + chars[k + 4]

\* the writes of encodeTrack in order: how each is laid out and the string
\* it carries
Writes(track) ==
    LET utf(chars) == [kind |-> "utf", chars |-> chars]
        nullable(text) == IF text.kind = "string" /\ text.chars # <<>>
                          THEN [kind |-> "present", chars |-> text.chars]
                          ELSE [kind |-> "fixed", size |-> 1]
        detailsOut == DetailsOut(track)
    IN  <<[kind |-> "fixed", size |-> 1], utf(track.title), utf(track.author),
          [kind |-> "fixed", size |-> 8], utf(track.identifier),
          [kind |-> "fixed", size |-> 1], nullable(track.uri),
          nullable(track.artworkUrl), nullable(track.isrc), utf(track.sourceName)>>
        \o [i \in 1..Len(detailsOut) |-> nullable(detailsOut[i])]
        \o <<[kind |-> "fixed", size |-> 8]>>

RECURSIVE ByteLengthsFrom(_, _)
\* the UTF-8 length of the string of each write from write i on, 0 for a
\* write without one
ByteLengthsFrom(writes, i) ==
    IF i > Len(writes) THEN <<>>
    ELSE <<IF writes[i].kind = "fixed" THEN 0 ELSE Len(Utf8Encode(writes[i].chars))>>
         \o ByteLengthsFrom(writes, i + 1)

ByteLengths(writes) == ByteLengthsFrom(writes, 1)

RECURSIVE PrefixesFrom(_, _, _, _, _)
\* from write i at offset pos of the buffer, each string's 16-bit prefix is
\* its UTF-8 length, and the writes end where the buffer ends
PrefixesFrom(encoded, writes, lengths, i, pos) ==
    IF i > Len(writes) THEN 4 * ((pos + 2) \div 3) = Len(encoded)
    ELSE LET w == writes[i]
             at == IF w.kind = "present" THEN pos + 1 ELSE pos
         IN  IF w.kind = "fixed"
             THEN PrefixesFrom(encoded, writes, lengths, i + 1, pos + w.size)
             ELSE /\ (Base64ByteAt(encoded, at) * 256) + Base64ByteAt(encoded, at + 1)
                         = lengths[i]
                  /\ PrefixesFrom(encoded, writes, lengths, i + 1, at + 2 + lengths[i])

\* what C26 says of a call e of encodeTrack whose writes have these lengths
LengthsChecked(e, writes, lengths) ==
    LET tooLong == \E i \in 1..Len(writes) : lengths[i] > MaxUtfBytes
    IN  /\ tooLong => e.threw /\ e.encoded = <<>>
        /\ (~tooLong /\ InInt64(e.track.length) /\ InInt64(e.track.position))
              => ~e.threw
        /\ ~e.threw => PrefixesFrom(e.encoded, writes, lengths, 1, 4)

\* C26: encodeTrack fails, returning no string, when a string it writes is
\* longer than 65535 UTF-8 bytes, and succeeds when the longest is exactly
\* 65535 bytes; in a payload it returns, every string's 16-bit prefix is the
\* string's UTF-8 length.
C26_LongStringsRejected ==
    codec.op \in {"encodeLimitTrack", "encodeTrack"}
        => LengthsChecked(codec, Writes(codec.track), ByteLengths(Writes(codec.track)))

\* a track whose title is 65536 bytes long, in 21846 characters, was refused
C26_Witness ==
    /\ codec.op = "encodeLimitTrack"
    /\ codec.track.title = Repeat(MaxUtfBytes \div 3, 8364) \o <<97>>
    /\ codec.threw
    /\ codec.encoded = <<>>

\* a track whose title is 65535 bytes long was encoded
C26_WitnessExact ==
    /\ codec.op = "encodeLimitTrack"
    /\ codec.track.title = Repeat(MaxUtfBytes \div 3, 8364)
    /\ ~codec.threw
    /\ Len(codec.encoded) > MaxUtfBytes

\* a track with a details entry of 65536 bytes was refused
C26_WitnessDetails ==
    /\ codec.op = "encodeLimitTrack"
    /\ Len(codec.track.details) = 2
    /\ codec.track.details[2] = Str(Repeat(MaxUtfBytes + 1, 97))
    /\ codec.threw

----------------------------------------------------------------------------
(* Part 4: the credential cache (CredentialManager in src/unnamed/part_000) *)

\* bounds on the cleanup() calls of a behaviour and on the saveCache() runs
\* in flight at a time
MaxCleanups == 1
MaxSaves == 2

\* defaultTTL = 6 * 60 * 60 * 1000
DefaultTTL == 21600000

\* the delay of the save timer
SaveDelayMs == 1000

CredKeys == {"k1", "k2"}
CredValues == {"v1", "v2"}

\* the optional ttl argument of set: <<>> when it is not passed
TtlArgs == {<<>>, <<0>>, <<SaveDelayMs>>}

\* the instants at which Date.now() is read
Instants == {0, SaveDelayMs, DefaultTTL - 1, DefaultTTL, DefaultTTL + SaveDelayMs}

\* credentials.json holding the credential k1 = v0 that expires at e
FileWith(e) ==
    [exists |-> TRUE,
     credentials |-> [k \in {"k1"} |-> [value |-> "v0", expiresAt |-> e]]]

\* credentials.json as the constructor may find it: absent, or holding one
\* credential that has expired, expires soon or expires in six hours
InitialFiles == {NoFile, FileWith(0), FileWith(SaveDelayMs), FileWith(DefaultTTL)}

\* new CredentialManager(logger): loadCache() has been started
InitCredentials(files) ==
    /\ sessions = <<>>
    /\ connections = {}
    /\ sockets = <<>>
    /\ uuidCount = 0
    /\ now = 0
    /\ last = NoEvent
    /\ managers = <<>>
    /\ registerLog = <<>>
    /\ reg = NoCall
    /\ codec = NoCodecCall
    /\ cache = <<>>
    /\ isDirty = FALSE
    /\ saveTimer = <<>>
    /\ timers = <<>>
    /\ saves = <<>>
    /\ cacheFile \in files
    /\ loadPromise = "pending"
    /\ clock = 0
    /\ cleanups = 0
    /\ cred = [op |-> "constructor"]

\* a sequence without its element i
RemoveAt(seq, i) == SubSeq(seq, 1, i - 1) \o SubSeq(seq, i + 1, Len(seq))

\* variant: a timer is set whether or not one is pending
ScheduleSave_Always(current, pending, at) ==
    [saveTimer |-> <<at + SaveDelayMs>>, timers |-> Append(pending, at + SaveDelayMs)]

\* scheduleSave(), called at time at: the new saveTimer and pending timers
ScheduleSave(current, pending, at) ==
    IF current # <<>> THEN [saveTimer |-> current, timers |-> pending]
    ELSE [saveTimer |-> <<at + SaveDelayMs>>, timers |-> Append(pending, at + SaveDelayMs)]

\* a saveCache() run that has just started: it awaits fs.mkdir
\* (during: how many cleanup() calls had been made when it started)
SaveRun(owner) ==
    [phase |-> "mkdir", owner |-> owner, credentials |-> <<>>, during |-> cleanups]

\* the record of a step of the credential manager
CredCall(op) ==
    [op |-> op, key |-> Null, result |-> Null, cached |-> <<>>, ttl |-> <<>>,
     mutation |-> FALSE, dirty |-> FALSE, saved |-> FALSE]

\* isDirty = true; scheduleSave(), after a change of the cache
MarkDirty ==
    LET s == ScheduleSave(saveTimer, timers, clock)
    IN  /\ isDirty' = TRUE
        /\ saveTimer' = s.saveTimer
        /\ timers' = s.timers

\* loadCache() finishes: the entries of the file that have not expired are
\* put in the cache; a missing file is ignored
loadCache ==
    /\ loadPromise = "pending"
    /\ loadPromise' = "done"
    /\ cache' = [k \in DOMAIN cache
                        \cup {f \in DOMAIN cacheFile.credentials :
                                clock < cacheFile.credentials[f].expiresAt} |->
                    IF k \in DOMAIN cacheFile.credentials
                         /\ clock < cacheFile.credentials[k].expiresAt
                    THEN cacheFile.credentials[k]
                    ELSE cache[k]]
    /\ cred' = CredCall("loadCache")
    /\ UNCHANGED <<isDirty, saveTimer, timers, saves, cacheFile, clock, cleanups>>

\* variant: an entry is still valid at the instant it expires
IsExpired_Late(cached, at) == at > cached.expiresAt

\* now >= cached.expiresAt
IsExpired(cached, at) == at >= cached.expiresAt

\* get(key)
getCredential(names) ==
    \E key \in names :
        IF key \notin DOMAIN cache
        THEN /\ cred' = [CredCall("get") EXCEPT !.key = key]
             /\ UNCHANGED <<cache, isDirty, saveTimer, timers, saves, cacheFile,
                            loadPromise, clock, cleanups>>
        ELSE IF IsExpired(cache[key], clock)
        THEN /\ cache' = MapDelete(cache, key)
             /\ MarkDirty
             /\ cred' = [CredCall("get") EXCEPT !.key = key, !.cached = <<cache[key]>>,
                                                !.mutation = TRUE]
             /\ UNCHANGED <<saves, cacheFile, loadPromise, clock, cleanups>>
        ELSE /\ cred' = [CredCall("get") EXCEPT !.key = key, !.cached = <<cache[key]>>,
                                                !.result = cache[key].value]
             /\ UNCHANGED <<cache, isDirty, saveTimer, timers, saves, cacheFile,
                            loadPromise, clock, cleanups>>

\* set(key, value, ttl)
setCredential(names, values, ttls) ==
    \E key \in names, value \in values, ttl \in ttls :
        /\ cache' = MapSet(cache, key,
                           [value |-> value,
                            expiresAt |-> clock + (IF ttl = <<>> THEN DefaultTTL
                                                   ELSE ttl[1])])
        /\ MarkDirty
        /\ cred' = [CredCall("set") EXCEPT !.key = key, !.ttl = ttl, !.mutation = TRUE]
        /\ UNCHANGED <<saves, cacheFile, loadPromise, clock, cleanups>>

\* clear(key)
clear(names) ==
    \E key \in names :
        /\ cache' = MapDelete(cache, key)
        /\ MarkDirty
        /\ cred' = [CredCall("clear") EXCEPT !.key = key, !.mutation = TRUE]
        /\ UNCHANGED <<saves, cacheFile, loadPromise, clock, cleanups>>

\* clearAll()
clearAll ==
    /\ cache' = <<>>
    /\ MarkDirty
    /\ cred' = [CredCall("clearAll") EXCEPT !.mutation = TRUE]
    /\ UNCHANGED <<saves, cacheFile, loadPromise, clock, cleanups>>

\* the callback of a timer that is due: saveTimer = null, and saveCache()
\* when the cache is dirty (isDirty = false, then the run awaits fs.mkdir)
timerFires ==
    \E i \in 1..Len(timers) :
        /\ timers[i] <= clock
        /\ isDirty => Len(saves) < MaxSaves
        /\ timers' = RemoveAt(timers, i)
        /\ saveTimer' = <<>>
        /\ isDirty' = FALSE
        /\ saves' = IF isDirty THEN Append(saves, SaveRun("timer")) ELSE saves
        /\ cred' = [CredCall("timer") EXCEPT !.dirty = isDirty]
        /\ UNCHANGED <<cache, cacheFile, loadPromise, clock, cleanups>>

\* the step that ends run i of saveCache(): a run awaited by cleanup()
\* resolves it
SaveEnds(i, saved) ==
    [CredCall(IF saves[i].owner = "cleanup" THEN "cleanupResolved" ELSE "saveCache")
        EXCEPT !.saved = saved, !.dirty = TRUE]

\* fs.mkdir settles in a saveCache() run: the run copies the cache as it is
\* now and awaits fs.writeFile, or the rejection is caught and logged
mkdirSettles ==
    \E i \in 1..Len(saves), ok \in BOOLEAN :
        /\ saves[i].phase = "mkdir"
        /\ saves' = IF ok
                    THEN [saves EXCEPT ![i].phase = "writeFile", ![i].credentials = cache]
                    ELSE RemoveAt(saves, i)
        /\ cred' = IF ok THEN CredCall("mkdir") ELSE SaveEnds(i, FALSE)
        /\ UNCHANGED <<cache, isDirty, saveTimer, timers, cacheFile, loadPromise,
                       clock, cleanups>>

\* fs.writeFile settles in a saveCache() run: the file holds the copy, or
\* the rejection is caught and logged
writeFileSettles ==
    \E i \in 1..Len(saves), ok \in BOOLEAN :
        /\ saves[i].phase = "writeFile"
        /\ saves' = RemoveAt(saves, i)
        /\ cacheFile' = IF ok THEN [exists |-> TRUE, credentials |-> saves[i].credentials]
                        ELSE cacheFile
        /\ cred' = SaveEnds(i, ok)
        /\ UNCHANGED <<cache, isDirty, saveTimer, timers, loadPromise, clock, cleanups>>

\* the pending timers without the one saveTimer holds
ClearTimeout(current, pending) ==
    IF current = <<>> THEN pending
    ELSE LET held == {i \in 1..Len(pending) : pending[i] = current[1]}
         IN  IF held = {} THEN pending
             ELSE RemoveAt(pending, CHOOSE i \in held : \A j \in held : i <= j)

\* cleanup(): up to its await, and all of it when the cache is not dirty
cleanup ==
    /\ cleanups < MaxCleanups
    /\ \A i \in 1..Len(saves) : saves[i].owner # "cleanup"
    /\ isDirty => Len(saves) < MaxSaves
    /\ cleanups' = cleanups + 1
    /\ timers' = ClearTimeout(saveTimer, timers)
    /\ saveTimer' = <<>>
    /\ isDirty' = FALSE
    /\ saves' = IF isDirty THEN Append(saves, SaveRun("cleanup")) ELSE saves
    /\ cred' = [CredCall(IF isDirty THEN "cleanup" ELSE "cleanupResolved")
                  EXCEPT !.dirty = isDirty]
    /\ UNCHANGED <<cache, cacheFile, loadPromise, clock>>

\* time passes
advanceClock(instants) ==
    \E t \in instants :
        /\ t > clock
        /\ clock' = t
        /\ cred' = CredCall("clock")
        /\ UNCHANGED <<cache, isDirty, saveTimer, timers, saves, cacheFile,
                       loadPromise, cleanups>>

\* the persistence of the cache, for one key
NextCredentials ==
    \/ loadCache /\ UNCHANGED <<gatewayVars, registryVars, codecVars>>
    \/ getCredential({"k1"}) /\ UNCHANGED <<gatewayVars, registryVars, codecVars>>
    \/ setCredential({"k1"}, {"v1"}, {<<>>, <<0>>}) /\ UNCHANGED <<gatewayVars, registryVars, codecVars>>
    \/ clear({"k1"}) /\ UNCHANGED <<gatewayVars, registryVars, codecVars>>
    \/ clearAll /\ UNCHANGED <<gatewayVars, registryVars, codecVars>>
    \/ timerFires /\ UNCHANGED <<gatewayVars, registryVars, codecVars>>
    \/ mkdirSettles /\ UNCHANGED <<gatewayVars, registryVars, codecVars>>
    \/ writeFileSettles /\ UNCHANGED <<gatewayVars, registryVars, codecVars>>
    \/ cleanup /\ UNCHANGED <<gatewayVars, registryVars, codecVars>>
    \/ advanceClock({SaveDelayMs, DefaultTTL}) /\ UNCHANGED <<gatewayVars, registryVars, codecVars>>

SpecCredentials == InitCredentials({NoFile, FileWith(DefaultTTL)}) /\ [][NextCredentials]_vars

\* the expiry of the entries, for every key, value, ttl and instant
NextExpiry ==
    \/ loadCache /\ UNCHANGED <<gatewayVars, registryVars, codecVars>>
    \/ getCredential(CredKeys) /\ UNCHANGED <<gatewayVars, registryVars, codecVars>>
    \/ setCredential(CredKeys, CredValues, TtlArgs) /\ UNCHANGED <<gatewayVars, registryVars, codecVars>>
    \/ clear(CredKeys) /\ UNCHANGED <<gatewayVars, registryVars, codecVars>>
    \/ clearAll /\ UNCHANGED <<gatewayVars, registryVars, codecVars>>
    \/ advanceClock(Instants) /\ UNCHANGED <<gatewayVars, registryVars, codecVars>>

SpecExpiry == InitCredentials(InitialFiles) /\ [][NextExpiry]_vars

\* the ghost record aside, the manager is in one of few shapes
CredTypeOK ==
    /\ isDirty \in BOOLEAN
    /\ Len(saveTimer) <= 1
    /\ DOMAIN cache \subseteq CredKeys

----------------------------------------------------------------------------
(* Properties of the credential cache *)

\* C27: get(key) returns the stored value while now < expiresAt and only
\* then; at now >= expiresAt it returns null, the entry is removed, the
\* cache is dirty and a save timer is pending; set without a ttl gives the
\* entry expiresAt = now + 6 hours.
C27_GetHonoursExpiry ==
    /\ cred.op = "get"
          => /\ cred.result # Null
                   => /\ cred.cached # <<>>
                      /\ clock < cred.cached[1].expiresAt
                      /\ cred.result = cred.cached[1].value
                      /\ cred.key \in DOMAIN cache
                      /\ cache[cred.key] = cred.cached[1]
             /\ (cred.cached # <<>> /\ clock < cred.cached[1].expiresAt)
                   => cred.result = cred.cached[1].value
             /\ (cred.cached # <<>> /\ clock >= cred.cached[1].expiresAt)
                   => /\ cred.result = Null
                      /\ cred.key \notin DOMAIN cache
                      /\ isDirty
                      /\ saveTimer # <<>>
                      /\ \E i \in 1..Len(timers) : timers[i] = saveTimer[1]
    /\ (cred.op = "set" /\ cred.ttl = <<>>)
          => /\ cred.key \in DOMAIN cache
             /\ cache[cred.key].expiresAt = clock + (6 * 60 * 60 * 1000)

\* get was called at the very instant a credential set six hours before
\* expires
C27_Witness ==
    /\ cred.op = "get"
    /\ cred.cached # <<>>
    /\ cred.cached[1].value \in CredValues
    /\ clock = DefaultTTL
    /\ cred.cached[1].expiresAt = clock
    /\ cred.result = Null

\* get returned a credential one millisecond before it expires
C27_WitnessValid ==
    /\ cred.op = "get"
    /\ cred.cached # <<>>
    /\ clock = cred.cached[1].expiresAt - 1
    /\ cred.result = "v2"

\* get returned a credential that loadCache took from the file
C27_WitnessLoaded ==
    /\ cred.op = "get"
    /\ clock > 0
    /\ cred.result = "v0"

\* what a step of the manager does to the timers and to the runs
TimerDiscipline ==
    /\ Len(timers') <= 1
    /\ (cred'.mutation /\ timers # <<>>)
          => /\ timers' = timers
             /\ saveTimer' = saveTimer
    /\ (cred'.mutation /\ timers = <<>>)
          => timers' = <<clock + SaveDelayMs>>
    /\ cred'.op = "timer"
          => /\ timers' = <<>>
             /\ saves' = IF isDirty THEN Append(saves, SaveRun("timer")) ELSE saves
             /\ ~isDirty'

\* C28: at most one save timer is pending at any time; a mutation (set,
\* clear, clearAll, a get that finds an expired entry) made while a timer is
\* pending sets no further timer; and a timer that fires starts one
\* saveCache() run when the cache is dirty at that moment and none when it
\* is not.
C28_SingleTimerDebounce == [][TimerDiscipline]_vars

\* set was called while a timer set by an earlier mutation was pending
C28_Witness ==
    /\ cred.op = "set"
    /\ Len(timers) = 1
    /\ timers[1] < clock + SaveDelayMs

\* a timer is pending only while the cache is dirty, so that every timer
\* that fires starts a run
TimerImpliesDirty == timers # <<>> => isDirty /\ saveTimer = <<timers[1]>>

\* a timer fired and started a run while another run was in flight
C28_WitnessOverlap ==
    /\ cred.op = "timer"
    /\ cred.dirty
    /\ Len(saves) = 2

\* C29: cleanup() called with the cache dirty cancels the pending timer, and
\* when it resolves a save of the cache's contents has completed, isDirty is
\* false and no timer is pending; called with the cache not dirty it writes
\* nothing.
C29_CleanupFlushes ==
    /\ cred.op = "cleanup"
          => /\ timers = <<>>
             /\ saveTimer = <<>>
    /\ (cred.op = "cleanupResolved" /\ cred.dirty)
          => /\ cred.saved
             /\ cacheFile.exists
             /\ cacheFile.credentials = cache
             /\ ~isDirty
             /\ saveTimer = <<>>
             /\ timers = <<>>
    /\ (cred.op = "cleanupResolved" /\ ~cred.dirty)
          => \A i \in 1..Len(saves) : saves[i].owner # "cleanup"

\* cleanup() cancels the timer and, when the cache is dirty, clears isDirty
\* and starts a saveCache() run that it awaits
CleanupStartsSave ==
    cred.op = "cleanup"
        => /\ timers = <<>>
           /\ saveTimer = <<>>
           /\ ~isDirty
           /\ \E i \in 1..Len(saves) : saves[i].owner = "cleanup"

\* when the run cleanup() awaited wrote the file, the file holds the cache as
\* it was when fs.mkdir settled
CleanupWritesCopy ==
    (cred.op = "cleanupResolved" /\ cred.dirty /\ cred.saved)
        => cacheFile.exists

\* cleanup() resolved after set was called during its await
CleanupResolvedDirty ==
    /\ cred.op = "cleanupResolved"
    /\ cred.dirty
    /\ cred.saved
    /\ isDirty
    /\ timers # <<>>

\* cleanup() resolved after fs.writeFile was rejected
CleanupResolvedUnsaved ==
    /\ cred.op = "cleanupResolved"
    /\ cred.dirty
    /\ ~cred.saved
    /\ ~isDirty
    /\ cache # <<>>
    /\ ~cacheFile.exists

----------------------------------------------------------------------------
(* The sessions of the live connections *)

\* C30: the session of every open WebSocket connection, and of every
\* upgraded connection whose open handler has not run yet, is in the session
\* map; so a frame is never handled for a connection whose session is
\* missing, and configureResuming never takes its 'session no longer exists'
\* branch.
C30_OpenSocketHasSession ==
    /\ \A c \in DOMAIN sockets : sockets[c].data.sessionId \in DOMAIN sessions
    /\ last.op = "message" => last.sessionId \in DOMAIN sessions

\* a connection of a session was closed while another connection that
\* resumed the same session is open, and the session is still stored
C30_Witness ==
    /\ last.op = "close"
    /\ \E c \in OpenSockets :
          /\ sockets[c].data.sessionId = last.sessionId
          /\ sockets[c].data.resumed
    /\ last.sessionId \in DOMAIN sessions

\* a configureResuming frame was handled on a connection that resumed a
\* session another connection had opened and closed
C30_WitnessMessage ==
    /\ last.op = "message"
    /\ last.frame.op = "configureResuming"
    /\ sockets[last.conn].data.resumed
    /\ last.sessionId \in DOMAIN sessions

----------------------------------------------------------------------------
(* The states of a stored session *)

\* ACTIVE: session.ws is a connection that is open
IsActive(session) == session.ws \in OpenSockets

\* SUSPENDED: resuming is enabled and the close of a socket set a deadline
IsSuspended(session) ==
    session.resumeEnabled /\ session.resumeDeadline # Undefined

\* bunServer.upgrade accepted a connection of the session, open not yet run
HasPendingOpen(sid) ==
    \E c \in DOMAIN sockets :
        sockets[c].state = "pending" /\ sockets[c].data.sessionId = sid

\* C31: a session that has at least one open connection carrying its
\* sessionId is ACTIVE: its ws field is an open connection and its
\* resumeDeadline is unset; so the close of one connection never detaches a
\* session, or starts its deadline, while another of its connections is open.
C31_OpenSocketSessionActive ==
    \A c \in OpenSockets :
        sockets[c].data.sessionId \in DOMAIN sessions
        => /\ IsActive(sessions[sockets[c].data.sessionId])
           /\ sessions[sockets[c].data.sessionId].resumeDeadline = Undefined

\* a close detached a session, and started its deadline, while another
\* connection of the session is open
DetachedWithOpenSocket ==
    /\ last.op = "close"
    /\ last.sessionId \in DOMAIN sessions
    /\ sessions[last.sessionId].ws = Undefined
    /\ sessions[last.sessionId].resumeDeadline # Undefined
    /\ \E c \in OpenSockets : sockets[c].data.sessionId = last.sessionId

\* the open handler makes the session of its connection ACTIVE
OpenMakesActive ==
    (last.op = "open" /\ last.sessionId \in DOMAIN sessions)
    => /\ sessions[last.sessionId].ws = last.conn
       /\ last.conn \in OpenSockets
       /\ sessions[last.sessionId].resumeDeadline = Undefined

\* C32: every stored session is ACTIVE, SUSPENDED, or has an accepted
\* upgrade whose open event is pending; a session created for a request
\* whose bunServer.upgrade returned false (status 400) is not in the store.
C32_NoOrphanSessions ==
    /\ \A sid \in DOMAIN sessions :
          \/ IsActive(sessions[sid])
          \/ IsSuspended(sessions[sid])
          \/ HasPendingOpen(sid)
    /\ (last.op = "upgrade" /\ last.created /\ last.status = 400)
       => last.sessionId \notin DOMAIN sessions

\* bunServer.upgrade returned false and the session made for the request is
\* stored with no socket, no pending open and no deadline
OrphanAfterFailedUpgrade ==
    /\ last.op = "upgrade"
    /\ last.created
    /\ last.status = 400
    /\ last.sessionId \in DOMAIN sessions
    /\ sessions[last.sessionId].ws = Undefined
    /\ ~IsSuspended(sessions[last.sessionId])
    /\ ~HasPendingOpen(last.sessionId)

\* a stored session that is in none of the three states was created for a
\* request whose bunServer.upgrade returned false: it never had a connection
OrphansNeverConnected ==
    \A sid \in DOMAIN sessions :
        \/ IsActive(sessions[sid])
        \/ IsSuspended(sessions[sid])
        \/ HasPendingOpen(sid)
        \/ /\ ~sessions[sid].resumeEnabled
           /\ sessions[sid].ws = Undefined
           /\ sessions[sid].resumeDeadline = Undefined

----------------------------------------------------------------------------
(* Re-registration and the dispatch order *)

\* the names of the managers canHandle was asked of, in the order of the scan
ScannedNames(calls) == [i \in 1..Len(calls) |-> calls[i].mgr.name]

ReRegisterKeepsPosition ==
    /\ (reg'.op = "register" /\ KeyIndex(managers, reg'.arg) # 0)
       => /\ reg'.manager \notin {managers[i] : i \in 1..Len(managers)}
          /\ managers' = [managers EXCEPT ![KeyIndex(managers, reg'.arg)] =
                                               reg'.manager]
    /\ reg'.op = "findManager"
       => /\ \A i, j \in 1..Len(reg'.calls) :
                i < j => FirstRegistered(registerLog, ScannedNames(reg'.calls)[i])
                           < FirstRegistered(registerLog, ScannedNames(reg'.calls)[j])
          /\ \A i \in 1..Len(reg'.calls) :
                reg'.calls[i].mgr = managers[i]
          /\ (~reg'.threw /\ reg'.manager # NoManager)
             => \A i \in 1..Len(managers) :
                   (/\ managers[i].can[reg'.arg] = "yes"
                    /\ managers[i] # reg'.manager)
                   => FirstRegistered(registerLog, reg'.manager.name)
                        < FirstRegistered(registerLog, managers[i].name)

\* C33: register() under a name that is already registered replaces the
\* manager object and keeps the name's position in the dispatch order:
\* findManager scans the names in the order of their first registration, so
\* a manager re-registered later precedes the managers whose names were
\* first registered after its name.
C33_ReRegisterKeepsPosition == [][ReRegisterKeepsPosition]_vars

\* findManager returned a manager that was registered again after another
\* matching manager, of a name registered later, had been registered
C33_Witness ==
    /\ reg.op = "findManager"
    /\ \E old \in Overwritten(registerLog) : old.name = reg.manager.name
    /\ \E m \in Candidates(registerLog, reg.arg) :
          /\ m.name # reg.manager.name
          /\ m.serial < reg.manager.serial
          /\ FirstRegistered(registerLog, reg.manager.name)
               < FirstRegistered(registerLog, m.name)

\* register() has just replaced the manager of the first of two names
C33_WitnessRegister ==
    /\ reg.op = "register"
    /\ Len(managers) = 2
    /\ managers[1] = reg.manager
    /\ reg.manager.serial = 3

----------------------------------------------------------------------------
(* The round trip of the details *)

\* a track with a details array was encoded and the result decoded
DetailsRoundTrip(e) == e.op = "decodeEncoded" /\ ~e.decoded.threw

\* C34: for every track t that encodeTrack accepts, with details any
\* sequence of null, empty and non-empty strings,
\* decodeTrack(encodeTrack(t)).details is t.details without its trailing
\* null entries: the synthetic sentinel is not among them, and no entry of
\* the caller is taken for a sentinel or changes the decoded isSeekable,
\* which is the effective isSeekable of t.
C34_DetailsRoundTrip ==
    codec.op = "decodeEncoded"
        => /\ ~codec.decoded.threw
           /\ codec.decoded.details = StripTrailingNulls(codec.track.details)
           /\ codec.decoded.info.isSeekable
                = JsBoolean(EffectiveSeekable(codec.track))

\* the details have no empty string, no sentinel literal as their last
\* entry that is not null, and no trailing null before a synthetic sentinel
PlainDetails(track) ==
    /\ \A i \in 1..Len(track.details) : ~EmptyText(track.details[i])
    /\ LastNonNull(track.details) > 0
          => ~IsSentinel(track.details[LastNonNull(track.details)])
    /\ \/ LastNonNull(track.details) = Len(track.details)
       \/ EffectiveSeekable(track) = ~track.isStream

\* the round trip of the details holds for plain details
PlainDetailsRoundTrip ==
    (codec.op = "decodeEncoded" /\ PlainDetails(codec.track))
        => /\ ~codec.decoded.threw
           /\ codec.decoded.details = StripTrailingNulls(codec.track.details)
           /\ codec.decoded.info.isSeekable
                = JsBoolean(EffectiveSeekable(codec.track))

\* the synthetic sentinel is never among the decoded details: they are at
\* most as many as the caller's
NoSyntheticSentinelDecoded ==
    DetailsRoundTrip(codec)
        => Len(codec.decoded.details) <= Len(codec.track.details)

\* the caller's last entry was taken for a sentinel: it is missing from the
\* decoded details and it changed the decoded isSeekable
CallerEntryConsumed ==
    /\ DetailsRoundTrip(codec)
    /\ codec.track.details = <<Str(SeekableSentinel(TRUE))>>
    /\ codec.track.isSeekable = "undefined"
    /\ codec.track.isStream
    /\ codec.decoded.details = <<>>
    /\ codec.decoded.info.isSeekable = "true"

\* an empty string of the caller came back as null, or not at all
EmptyDetailLost ==
    /\ DetailsRoundTrip(codec)
    /\ codec.track.details = <<Str(<<>>)>>
    /\ codec.decoded.details = <<>>

\* a trailing null of the caller came back, kept by the synthetic sentinel
\* that was written after it
TrailingNullKept ==
    /\ DetailsRoundTrip(codec)
    /\ codec.track.details = <<Str(<<100>>), NullText>>
    /\ codec.decoded.details = <<Str(<<100>>), NullText>>

----------------------------------------------------------------------------
(* The initial load and the calls made before it finishes *)

\* the entries of the file that loadCache() puts in the cache at time at
Loadable(file, at) ==
    {k \in DOMAIN file.credentials : at < file.credentials[k].expiresAt}

\* the step in which loadCache() finishes keeps what set and clear did
\* before it: until then the cache holds exactly the entries set put there
LoadKeepsNewerState ==
    cred'.op = "loadCache"
        => /\ \A k \in DOMAIN cache : k \in DOMAIN cache' /\ cache'[k] = cache[k]
           /\ cred.op = "clear" => cred.key \notin DOMAIN cache'

\* C35: the initial load of the credential file never overwrites newer
\* state: after set(key, v) or clear(key) called between the construction
\* and the end of loadCache, the cache, and so get(key), still holds v, or
\* nothing after clear, when the load has finished, and not the older value
\* of the file.
C35_LoadKeepsNewerState == [][LoadKeepsNewerState]_vars

\* loadCache() changes only the keys it reads from the file, and no key at
\* all when the file is missing or all its entries have expired
LoadTouchesFileKeysOnly ==
    [][cred'.op = "loadCache"
         => /\ \A k \in DOMAIN cache \ Loadable(cacheFile, clock) :
                  k \in DOMAIN cache' /\ cache'[k] = cache[k]
            /\ DOMAIN cache' = DOMAIN cache \cup Loadable(cacheFile, clock)
            /\ \A k \in Loadable(cacheFile, clock) :
                  cache'[k] = cacheFile.credentials[k]]_vars

\* the load has just finished while the cache was dirty from a call made
\* before it, and the cache holds the value of the file under the one key
\* of SpecCredentials: what set, clear or clearAll did to the key is undone
StaleValueAfterLoad ==
    /\ cred.op = "loadCache"
    /\ isDirty
    /\ "k1" \in DOMAIN cache
    /\ cache["k1"].value = "v0"

----------------------------------------------------------------------------
(* What has been written when cleanup() resolves *)

\* the saveCache() runs in flight that started before the latest cleanup()
\* call was made
EarlierRuns == {i \in 1..Len(saves) : saves[i].during < cleanups}

\* a saveCache() run has just ended in a rejection of fs.mkdir or
\* fs.writeFile
SaveFailed(e) == e.op \in {"saveCache", "cleanupResolved"} /\ e.dirty /\ ~e.saved

\* C36: once cleanup() has resolved, every mutation made before cleanup was
\* called has been included in a write attempt that has finished: no
\* saveCache() run that the debounce timer started before the call is still
\* in flight; and after a failed write no mutation is left both unwritten
\* and unscheduled (isDirty = false and no timer).
C36_CleanupSettlesWrites ==
    /\ cred.op = "cleanupResolved" => EarlierRuns = {}
    /\ (SaveFailed(cred) /\ saves = <<>> /\ cache # cacheFile.credentials)
          => (isDirty \/ saveTimer # <<>>)

\* cleanup() found the cache clean and resolved at once while the run the
\* timer had started was awaiting fs.mkdir or fs.writeFile
CleanupResolvedDuringTimerRun ==
    /\ cred.op = "cleanupResolved"
    /\ ~cred.dirty
    /\ \E i \in EarlierRuns : saves[i].owner = "timer"
    /\ cache # cacheFile.credentials

\* cleanup() resolved after its own run while an earlier run of the timer
\* is still in flight
CleanupOvertookTimerRun ==
    /\ cred.op = "cleanupResolved"
    /\ cred.dirty
    /\ \E i \in EarlierRuns : saves[i].owner = "timer"

\* a run failed and the mutation it was to write is neither written nor
\* scheduled
FailedWriteForgotten ==
    /\ SaveFailed(cred)
    /\ cred.op = "saveCache"
    /\ saves = <<>>
    /\ cache # cacheFile.credentials
    /\ ~isDirty
    /\ saveTimer = <<>>
    /\ timers = <<>>

\* the run cleanup() awaits has ended, in success or in failure, when
\* cleanup() resolves: the runs still in flight are runs of the timer
CleanupAwaitsOwnRun ==
    cred.op = "cleanupResolved"
        => \A i \in 1..Len(saves) : saves[i].owner = "timer"

====
